---------------------------- MODULE Spec2Model ----------------------------
(***************************************************************************)
(* Model of the DataProcessor news pipeline:                               *)
(*   - NewsFeedSearch  (src/DataProcessor/src/search/news_feed_search.py)  *)
(*   - AsyncScraper    (src/DataProcessor/src/scrape/async_scraper.py)     *)
(*                                                                         *)
(* Spec       : the feed search engine with its file cache and clock.      *)
(* FilterSpec : the date filter of search_news as a function of its input. *)
(* FetchSpec  : the concurrent fetcher (semaphore, retries, gather).       *)
(* FetchFair  : one scrape_urls call under the event loop's fairness.      *)
(***************************************************************************)
EXTENDS Integers, Sequences, FiniteSets, TLC

(***************************************************************************)
(* Bounds of the model.                                                    *)
(***************************************************************************)
\* calendar days are day-of-month numbers of January 2025: 1 .. MaxDay
MaxDay == 3
\* number of entries the upstream feed returns at most (FilterSpec)
MaxFeedLen == 2
\* the clock stops ticking at MaxClock
MaxClock == 2
\* cache_expiry given to NewsFeedSearch.__init__ (seconds)
CacheExpiry == 1

Days == 1 .. MaxDay

\* datetime.now().date() while the model runs: 2025-01-03
Today == 3

\* no calendar day: a parser raised ValueError
NoDate == 0 - 1000

(***************************************************************************)
(* Strings.  A publish_date string is kept as the format it is written in  *)
(* and the calendar day it names; the parsers, isoformat and the string    *)
(* order are computed from that.                                           *)
(*   rfc822   "Wed, 01 Jan 2025 09:00:00 GMT"                              *)
(*   isoZ     "2025-01-01T08:30:00Z"                                       *)
(*   dateonly "2025-01-01"                                                 *)
(*   text     "yesterday"                                                  *)
(*   empty    ""                                                           *)
(***************************************************************************)
PubStr(fmt, day) == [fmt |-> fmt, day |-> day]

PubStrings ==
    {PubStr(f, d) : f \in {"rfc822", "isoZ", "dateonly"}, d \in Days}
        \cup {PubStr("text", 0), PubStr("empty", 0)}

\* datetime.strptime(s, "%a, %d %b %Y %H:%M:%S %Z").date(); NoDate is ValueError
strptime_feed(s) == IF s.fmt = "rfc822" THEN s.day ELSE NoDate

\* s.replace('Z', '+00:00')
replace_Z(s) == IF s.fmt = "isoZ" THEN [s EXCEPT !.fmt = "isoOffset"] ELSE s

\* datetime.fromisoformat(s).date(); NoDate is ValueError
fromisoformat(s) ==
    IF s.fmt \in {"isoOffset", "dateonly"} THEN s.day ELSE NoDate

\* The try/except chain of search_news lines 171-183.
parse_publish_date(s) ==
    IF strptime_feed(s) # NoDate THEN strptime_feed(s)
    ELSE fromisoformat(replace_Z(s))

\* Position of the weekday's English abbreviation in alphabetical order;
\* 1 January 2025 is a Wednesday.
WeekdayAlpha(d) ==
    LET wd == (d + 1) % 7     \* 0 = Mon .. 6 = Sun
    IN  CASE wd = 4 -> 1      \* Fri
          [] wd = 0 -> 2      \* Mon
          [] wd = 5 -> 3      \* Sat
          [] wd = 6 -> 4      \* Sun
          [] wd = 3 -> 5      \* Thu
          [] wd = 1 -> 6      \* Tue
          [] OTHER  -> 7      \* Wed

\* Python's str order on the strings above, as a triple compared left to
\* right: "" < digits < upper-case letters < lower-case letters.
StrKey(s) ==
    CASE s.fmt = "empty"    -> <<0, 0, 0>>
      [] s.fmt = "dateonly" -> <<1, s.day, 0>>
      [] s.fmt = "isoZ"     -> <<1, s.day, 1>>
      [] s.fmt = "rfc822"   -> <<2, WeekdayAlpha(s.day), 0>>
      [] OTHER              -> <<3, 0, 0>>

StrLess(a, b) ==
    LET x == StrKey(a)
        y == StrKey(b)
    IN  \/ x[1] < y[1]
        \/ x[1] = y[1] /\ x[2] < y[2]
        \/ x[1] = y[1] /\ x[2] = y[2] /\ x[3] < y[3]

(***************************************************************************)
(* Links.                                                                  *)
(***************************************************************************)
GoogleParamLink == "https://news.google.com/rss/articles/a1?url=https://site.example/a1&hl=en"
GoogleOpaqueLink == "https://news.google.com/rss/articles/b2?oc=5"
DirectLink == "https://site.example/c3"
EmbeddedTarget == "https://site.example/a1"
RedirectTarget == "https://site.example/b2"

\* "news.google.com" in link
is_google_link(link) == link \in {GoogleParamLink, GoogleOpaqueLink}

\* "url=" in urlparse(link).query
has_url_param(link) == link = GoogleParamLink

\* parsed.query.split("url=")[1].split("&")[0]
url_param(link) == IF link = GoogleParamLink THEN EmbeddedTarget ELSE ""

Stub(title, link, pub) == [title |-> title, link |-> link, publish_date |-> pub]


\* A feed entry as feedparser gives it; lines 290-323 map it to a stub.
\* published is a string or Missing (the entry has no "published").
Missing == [fmt |-> "missing", day |-> 0]
\* Python None as a publish_date (search_news line 167)
NonePub == [fmt |-> "None", day |-> 0]

\* entry.get("published", "")
entry_to_stub(e) ==
    Stub(e.title, e.link,
         IF e.published = Missing THEN PubStr("empty", 0) ELSE e.published)

(***************************************************************************)
(* search_news: date normalisation (lines 111-140).  A date argument is    *)
(* None, a date, a datetime or a string.                                   *)
(***************************************************************************)
DateArg(kind, day) == [kind |-> kind, day |-> day]

\* datetime.strptime(s, "%Y-%m-%dT%H:%M:%S") when 'T' in s, else "%Y-%m-%d"
strptime_arg(a) ==
    IF a.kind \in {"str_date", "str_datetime"} THEN a.day ELSE NoDate

normalize_from(a) ==
    CASE a.kind = "none" -> Today - 7
      [] a.kind \in {"str_date", "str_datetime", "str_bad"} ->
            IF strptime_arg(a) # NoDate THEN strptime_arg(a) ELSE Today - 7
      [] OTHER -> a.day

\* normalize_to falling back to the default of from_date
normalize_to_week_ago(a) ==
    CASE a.kind = "none" -> Today
      [] a.kind \in {"str_date", "str_datetime", "str_bad"} ->
            IF strptime_arg(a) # NoDate THEN strptime_arg(a) ELSE Today - 7
      [] OTHER -> a.day

normalize_to(a) ==
    CASE a.kind = "none" -> Today
      [] a.kind \in {"str_date", "str_datetime", "str_bad"} ->
            IF strptime_arg(a) # NoDate THEN strptime_arg(a) ELSE Today
      [] OTHER -> a.day

(***************************************************************************)
(* search_news: the date filter (lines 163-218).                           *)
(***************************************************************************)
\* keeps_article with the upper end of the window forgotten
keeps_article_open_end(article, from_date, to_date) ==
    LET pub == article.publish_date
        d   == parse_publish_date(pub)
    IN  IF pub = NonePub THEN FALSE
        ELSE IF d = NoDate THEN TRUE
        ELSE from_date <= d

\* keeps_article with an exclusive upper end
keeps_article_exclusive(article, from_date, to_date) ==
    LET pub == article.publish_date
        d   == parse_publish_date(pub)
    IN  IF pub = NonePub THEN FALSE
        ELSE IF d = NoDate THEN TRUE
        ELSE from_date <= d /\ d < to_date

\* whether the loop body appends the article to filtered_results
keeps_article(article, from_date, to_date) ==
    LET pub == article.publish_date
        d   == parse_publish_date(pub)
    IN  IF pub = NonePub THEN FALSE
        ELSE IF d = NoDate THEN TRUE
        ELSE from_date <= d /\ d <= to_date

RECURSIVE filter_by_date(_, _, _)
filter_by_date(results, from_date, to_date) ==
    IF results = <<>> THEN <<>>
    ELSE LET rest == filter_by_date(Tail(results), from_date, to_date)
         IN  IF keeps_article(Head(results), from_date, to_date)
             THEN <<Head(results)>> \o rest
             ELSE rest

(***************************************************************************)
(* search_news: sort and truncate (lines 220-225).                         *)
(***************************************************************************)
\* x goes behind every element whose key is >= its own: sorted(...,
\* reverse=True) keeps the input order of equal keys.
RECURSIVE insert_desc(_, _)
insert_desc(x, s) ==
    IF s = <<>> THEN <<x>>
    ELSE IF StrLess(Head(s).publish_date, x.publish_date)
         THEN <<x>> \o s
         ELSE <<Head(s)>> \o insert_desc(x, Tail(s))

\* sorted_desc leaving the list in feed order
sorted_desc_feed_order(s) == s

RECURSIVE sorted_desc(_)
sorted_desc(s) ==
    IF s = <<>> THEN <<>>
    ELSE insert_desc(s[Len(s)], sorted_desc(SubSeq(s, 1, Len(s) - 1)))

\* slice_to without the truncation
slice_to_all(s, n) == s

\* s[:n]
slice_to(s, n) ==
    IF n >= 0
    THEN SubSeq(s, 1, IF n < Len(s) THEN n ELSE Len(s))
    ELSE SubSeq(s, 1, IF Len(s) + n > 0 THEN Len(s) + n ELSE 0)

(***************************************************************************)
(* Redirect resolution (lines 227-244, 331-377).                           *)
(***************************************************************************)
\* indices of sorted_results whose link contains "news.google.com"
google_urls(results) ==
    {i \in 1 .. Len(results) : is_google_link(results[i].link)}

\* those of them for which _extract_real_url issues a request
needs_request(results) ==
    {i \in google_urls(results) : ~has_url_param(results[i].link)}

\* What the request of _extract_real_url (allow_redirects=False) comes
\* back with: a status, with or without a Location header, or an exception.
ReplyKinds ==
    {"301loc", "302loc", "301noloc", "307loc", "308loc", "200", "error"}

\* response.status in (301, 302) and response.headers.get("Location")
follows(reply) == reply \in {"301loc", "302loc"}

\* extract_real_url giving nothing back when the answer is no redirect
extract_real_url_or_nothing(link, reply) ==
    IF has_url_param(link) THEN url_param(link)
    ELSE IF follows(reply) THEN RedirectTarget
    ELSE ""

\* _extract_real_url; reply is what the request (if any) came back with
extract_real_url(link, reply) ==
    IF has_url_param(link) THEN url_param(link)
    ELSE IF follows(reply) THEN RedirectTarget
    ELSE link

\* the session.get calls of one _extract_real_url: none when the link
\* carries url=, else the one at line 368
extract_requests(link) == IF has_url_param(link) THEN 0 ELSE 1

\* _batch_resolve_urls: gather keeps the order of urls
batch_resolve_urls(urls, replies) ==
    [i \in 1 .. Len(urls) |-> extract_real_url(urls[i], replies[i])]

\* apply_resolved pairing the k-th resolved URL with the k-th stub
apply_resolved_by_rank(results, replies) ==
    LET g      == google_urls(results)
        nth(k) == CHOOSE i \in g : Cardinality({j \in g : j < i}) = k - 1
    IN  [k \in 1 .. Len(results) |->
            IF k <= Cardinality(g)
            THEN LET i == nth(k)
                     r == extract_real_url(results[i].link,
                              IF i \in DOMAIN replies THEN replies[i] ELSE "none")
                 IN  IF r # "" THEN [results[k] EXCEPT !.link = r] ELSE results[k]
            ELSE results[k]]

\* lines 239-244: substitute the resolved link when it is truthy
apply_resolved(results, replies) ==
    [i \in 1 .. Len(results) |->
        IF i \in google_urls(results)
        THEN LET r == extract_real_url(results[i].link,
                         IF i \in DOMAIN replies THEN replies[i] ELSE "none")
             IN  IF r # "" THEN [results[i] EXCEPT !.link = r] ELSE results[i]
        ELSE results[i]]

(***************************************************************************)
(* Cache store (lines 379-448).  A cache file is its parsed content and    *)
(* its mtime; the md5 digest is taken to separate distinct key strings.    *)
(***************************************************************************)
\* str(topic) in the f-string
topic_str(topic) == IF topic = <<>> THEN <<"None">> ELSE topic

\* date.isoformat()
isoformat(d) ==
    CASE d = 1 -> "2025-01-01"
      [] d = 2 -> "2025-01-02"
      [] d = 3 -> "2025-01-03"
      [] d = 4 -> "2025-01-04"
      [] d = 5 -> "2025-01-05"
      [] d = Today - 7 -> "2024-12-27"
      [] OTHER -> "other"

\* f"{query}_{topic}_{from_date.isoformat()}_{to_date.isoformat()}"
generate_cache_key(query, topic, from_date, to_date) ==
    query \o <<"_">> \o topic_str(topic) \o <<"_">>
          \o <<isoformat(from_date)>> \o <<"_">> \o <<isoformat(to_date)>>

CacheNone == [none |-> TRUE, data |-> <<>>, raised |-> FALSE]

\* json.dump(results, f): the text of the file, a JSON array with one
\* object per article, the object's members in the order of the dict's keys
json_dump(results) ==
    [i \in 1 .. Len(results) |->
        << <<"title", results[i].title>>,
           <<"link", results[i].link>>,
           <<"publish_date", results[i].publish_date>> >>]

\* json.load(f): the list of dicts the text stands for
json_load(text) ==
    [i \in 1 .. Len(text) |->
        [title        |-> text[i][1][2],
         link         |-> text[i][2][2],
         publish_date |-> text[i][3][2]]]

\* What happens to the file while _get_from_cache looks at it: nothing; it
\* is removed after exists() and before stat() (line 411); it is removed
\* after stat() and before open() (line 418); open() is refused.
ReadOutcomes == {"ok", "gone_at_stat", "gone_at_open", "unreadable"}

\* get_from_cache without the mtime check
get_from_cache_no_expiry(files, key, time, rd) ==
    IF key \notin DOMAIN files THEN CacheNone
    ELSE IF rd = "gone_at_stat"
    THEN [none |-> FALSE, data |-> <<>>, raised |-> TRUE]
    ELSE IF rd # "ok" \/ ~files[key].complete THEN CacheNone
    ELSE [none |-> FALSE, data |-> json_load(files[key].data), raised |-> FALSE]

\* _get_from_cache: None when there is no file (line 408), when it is older
\* than cache_expiry (lines 411-415), and when open or json.load raises on
\* it (lines 417-425); cache_file.stat() at line 411 is outside the try, so
\* its FileNotFoundError leaves _get_from_cache.
get_from_cache(files, key, time, rd) ==
    IF key \notin DOMAIN files THEN CacheNone
    ELSE IF rd = "gone_at_stat"
    THEN [none |-> FALSE, data |-> <<>>, raised |-> TRUE]
    ELSE IF time - files[key].mtime > CacheExpiry THEN CacheNone
    ELSE IF rd # "ok" \/ ~files[key].complete THEN CacheNone
    ELSE [none |-> FALSE, data |-> json_load(files[key].data), raised |-> FALSE]

\* "if cached_results:" (line 151)
truthy(r) == ~r.none /\ Len(r.data) > 0

\* How the write of _save_to_cache goes: it succeeds; open(cache_file, "w")
\* raises (CACHE_DIR gone or not writable); or open succeeds, which empties
\* the file, and json.dump raises before the text is complete (no space).
WriteOutcomes == {"ok", "openfail", "dumpfail"}

\* the file after a complete write, and after a write that broke off
written(results, time) ==
    [data |-> json_dump(results), mtime |-> time, complete |-> TRUE]
broken_off(time) == [data |-> <<>>, mtime |-> time, complete |-> FALSE]

\* save_to_cache that opens the file for appending
save_to_cache_append(files, key, results, time, wr) ==
    IF wr = "ok"
    THEN [files  |-> (key :> [written(results, time) EXCEPT !.data =
                                 (IF key \in DOMAIN files
                                  THEN files[key].data ELSE <<>>) \o @])
                       @@ files,
          saved  |-> TRUE,
          raised |-> FALSE]
    ELSE IF wr = "dumpfail"
    THEN [files |-> (key :> broken_off(time)) @@ files,
          saved |-> FALSE, raised |-> FALSE]
    ELSE [files |-> files, saved |-> FALSE, raised |-> FALSE]

\* save_to_cache that renews the mtime of every file of the directory
save_to_cache_touch_all(files, key, results, time, wr) ==
    IF wr = "ok"
    THEN [files  |-> (key :> written(results, time))
                       @@ [k \in DOMAIN files |-> [files[k] EXCEPT !.mtime = time]],
          saved  |-> TRUE,
          raised |-> FALSE]
    ELSE IF wr = "dumpfail"
    THEN [files |-> (key :> broken_off(time)) @@ files,
          saved |-> FALSE, raised |-> FALSE]
    ELSE [files |-> files, saved |-> FALSE, raised |-> FALSE]

\* save_to_cache that keeps a file that is already there
save_to_cache_if_absent(files, key, results, time, wr) ==
    IF wr = "ok"
    THEN [files  |-> files @@ (key :> written(results, time)),
          saved  |-> TRUE,
          raised |-> FALSE]
    ELSE IF wr = "dumpfail"
    THEN [files |-> (key :> broken_off(time)) @@ files,
          saved |-> FALSE, raised |-> FALSE]
    ELSE [files |-> files, saved |-> FALSE, raised |-> FALSE]

\* save_to_cache without its try/except: the exception of the write leaves
\* _save_to_cache and search_news
save_to_cache_unguarded(files, key, results, time, wr) ==
    IF wr = "ok"
    THEN [files  |-> (key :> written(results, time)) @@ files,
          saved  |-> TRUE,
          raised |-> FALSE]
    ELSE IF wr = "dumpfail"
    THEN [files |-> (key :> broken_off(time)) @@ files,
          saved |-> FALSE, raised |-> TRUE]
    ELSE [files |-> files, saved |-> FALSE, raised |-> TRUE]

\* _save_to_cache: the cache directory after the call, whether the call
\* returned True, and whether an exception left it (never: lines 446-448).
save_to_cache(files, key, results, time, wr) ==
    IF wr = "ok"
    THEN [files  |-> (key :> written(results, time)) @@ files,
          saved  |-> TRUE,
          raised |-> FALSE]
    ELSE IF wr = "dumpfail"
    THEN [files |-> (key :> broken_off(time)) @@ files,
          saved |-> FALSE, raised |-> FALSE]
    ELSE [files |-> files, saved |-> FALSE, raised |-> FALSE]

(***************************************************************************)
(* HTTP session (lines 64-82).                                             *)
(***************************************************************************)
\* self.session and the ClientSession objects of the instance: ref is what
\* self.session refers to ("none": None, "open", "closed"), live the number
\* of ClientSession objects the instance created that are not closed, and
\* raised whether an exception has left create_session or close
NoSession == [ref |-> "none", live |-> 0, raised |-> FALSE]

\* create_session that always makes a new ClientSession
create_session_always(s) == [s EXCEPT !.ref = "open", !.live = @ + 1]

\* create_session: lines 71-77
create_session(s) ==
    IF s.ref = "none" \/ s.ref = "closed"
    THEN [s EXCEPT !.ref = "open", !.live = @ + 1]
    ELSE s

\* close without the test of line 81: None has no close()
close_session_unguarded(s) ==
    IF s.ref = "open" THEN [s EXCEPT !.ref = "closed", !.live = @ - 1]
    ELSE IF s.ref = "none" THEN [s EXCEPT !.raised = TRUE]
    ELSE s

\* close: lines 79-82
close_session(s) ==
    IF s.ref = "open" THEN [s EXCEPT !.ref = "closed", !.live = @ - 1] ELSE s

\* What a call on the instance does to the session: search_news answered
\* from the cache does not touch it (line 153), search_news otherwise and
\* get_article_content call create_session (lines 156, 465), close closes.
SessionOps == {"search_hit", "search_miss", "get_article_content", "close"}

session_after(s, op) ==
    IF op = "close" THEN close_session(s)
    ELSE IF op = "search_hit" THEN s
    ELSE create_session(s)

\* the session after each call of ops, starting from a new instance
RECURSIVE session_trace(_)
session_trace(ops) ==
    IF ops = <<>> THEN <<>>
    ELSE LET before == session_trace(SubSeq(ops, 1, Len(ops) - 1))
             s      == IF before = <<>> THEN NoSession ELSE before[Len(before)]
         IN  Append(before, session_after(s, ops[Len(ops)]))

(***************************************************************************)
(* Feed client (lines 253-329).  outcome is what the request did.          *)
(***************************************************************************)
FeedFailures == {"non200", "neterror", "parseerror"}

RECURSIVE map_entries(_)
map_entries(entries) ==
    IF entries = <<>> THEN <<>>
    ELSE <<entry_to_stub(Head(entries))>> \o map_entries(Tail(entries))

\* feed_round_trips asking page by page
feed_round_trips_paged(cr) == IF cr.max_results > 1 THEN cr.max_results ELSE 1

\* the session.get calls of one _search_google_news: the one at line 277,
\* in straight-line code, whatever the arguments of the search
feed_round_trips(cr) == 1

\* search_google_news without its try/except
search_google_news_unguarded(outcome, entries) ==
    IF outcome = "ok"
    THEN [raised |-> FALSE, results |-> map_entries(entries)]
    ELSE [raised |-> TRUE, results |-> <<>>]

search_google_news(outcome, entries) ==
    IF outcome = "ok"
    THEN [raised |-> FALSE, results |-> map_entries(entries)]
    ELSE [raised |-> FALSE, results |-> <<>>]

(***************************************************************************)
(* State of the feed search engine: one NewsFeedSearch instance, its cache *)
(* directory, the clock, and the callers' search_news coroutines.  Each    *)
(* caller makes one call; the calls may follow one another or overlap at   *)
(* the suspension points of search_news.                                   *)
(***************************************************************************)
VARIABLES
    cache_files,   \* CACHE_DIR: key string -> [data, mtime]
    disk,          \* how writes to CACHE_DIR go: one of WriteOutcomes
    now,           \* time.time()
    session,       \* self.session and the live ClientSession objects
    upstream,      \* the entries the syndication endpoint serves
    pc,            \* per caller: where its search_news coroutine stands
    call,          \* per caller: the arguments of its call
    res,           \* per caller: sorted_results, then the returned list
    info           \* per caller: what the call has done so far

search_vars ==
    <<cache_files, disk, now, session, upstream, pc, call, res, info>>

(***************************************************************************)
(* State of the date filter taken alone (FilterSpec).                      *)
(***************************************************************************)
VARIABLES
    f_pc,          \* "input" before the filter loop ran, "output" after
    f_results,     \* google_results
    f_from,        \* from_date
    f_to,          \* to_date
    f_filtered     \* filtered_results

filter_vars == <<f_pc, f_results, f_from, f_to, f_filtered>>

(***************************************************************************)
(* State of the redirect resolver taken alone (ResolveSpec).               *)
(***************************************************************************)
VARIABLES
    r_pc,          \* "input" before _batch_resolve_urls ran, "output" after
    r_urls,        \* urls
    r_replies,     \* what a request for each URL comes back with
    r_resolved,    \* the list _batch_resolve_urls returns
    r_requests     \* per URL: the requests _extract_real_url sent for it

resolve_vars == <<r_pc, r_urls, r_replies, r_resolved, r_requests>>

(***************************************************************************)
(* State of one function or method taken alone: its arguments and the      *)
(* result of the call (CacheGetSpec and the specifications after it).      *)
(***************************************************************************)
VARIABLES
    u_pc,          \* "off", "input" before the call, "output" after it
    u_in,          \* the arguments and what the environment does
    u_out          \* what the call returned or raised

unit_vars == <<u_pc, u_in, u_out>>

(***************************************************************************)
(* State of the concurrent fetcher: one AsyncScraper instance, the         *)
(* scrape_urls calls running on it and their scrape_url tasks.             *)
(***************************************************************************)
VARIABLES
    permits,       \* self.semaphore: permits available
    b_pc,          \* per scrape_urls call: "idle", "running", "returned"
    b_urls,        \* per call: number of URLs given
    b_session,     \* per call: its ClientSession, "none", "open", "closed"
    b_result,      \* per call: valid_results
    t_pc,          \* per task: where scrape_url stands
    t_attempt,     \* per task: the loop variable attempt
    t_result,      \* per task: what scrape_url returned
    t_hist         \* per task: the requests it made and how they ended

fetch_vars ==
    <<permits, b_pc, b_urls, b_session, b_result, t_pc, t_attempt, t_result, t_hist>>

vars == <<search_vars, filter_vars, resolve_vars, unit_vars, fetch_vars>>

Callers == {1, 2}

Queries == {<<"ai">>}
Topics == {<<>>}
Windows ==
    { <<DateArg("str_date", 1), DateArg("str_date", 2)>>,
      <<DateArg("date", 2), DateArg("str_datetime", MaxDay)>> }
MaxResultsArgs == {0, 1, 2}

Criteria ==
    { [query |-> q, topic |-> t, from_date |-> w[1], to_date |-> w[2],
       max_results |-> m, resolve_urls |-> r, use_cache |-> u] :
        q \in Queries, t \in Topics, w \in Windows, m \in MaxResultsArgs,
        r \in BOOLEAN, u \in BOOLEAN }

Entry(title, link, published) ==
    [title |-> title, link |-> link, published |-> published]

Upstreams ==
    { <<Entry("t2", GoogleOpaqueLink, PubStr("rfc822", 2)),
        Entry("t1", GoogleParamLink, PubStr("rfc822", 1)),
        Entry("t3", DirectLink, PubStr("isoZ", MaxDay))>>,
      <<Entry("t4", DirectLink, PubStr("text", 0)),
        Entry("t3", DirectLink, PubStr("isoZ", MaxDay)),
        Entry("t5", GoogleOpaqueLink, Missing)>> }

NoCall == [none |-> TRUE]

\* What a call has done: requests issued, sessions created, whether it
\* returned from the cache, whether an exception left search_news, what the
\* cache held for its key when it looked (fresh: present and within the
\* TTL; stale: present and older), how the
\* feed request ended, how often it called _save_to_cache and whether that
\* call failed, and the callers whose call had already returned when this
\* one started.
NoInfo ==
    [feed_requests |-> 0, resolve_requests |-> 0, new_sessions |-> 0,
     hit |-> FALSE, raised |-> FALSE, fresh |-> FALSE, stale |-> FALSE,
     outcome |-> "none", cache_writes |-> 0,
     write_failed |-> FALSE, after |-> {}]

from_of(c) == normalize_from(call[c].from_date)
to_of(c) == normalize_to(call[c].to_date)
key_of(cr) ==
    generate_cache_key(cr.query, cr.topic,
                       normalize_from(cr.from_date), normalize_to(cr.to_date))

SearchInit ==
    /\ cache_files = <<>>
    /\ disk = "ok"
    /\ now = 0
    /\ session = NoSession
    /\ upstream \in Upstreams
    /\ pc = [c \in Callers |-> "idle"]
    /\ call = [c \in Callers |-> NoCall]
    /\ res = [c \in Callers |-> <<>>]
    /\ info = [c \in Callers |-> NoInfo]

\* RetryCount: retry_count of AsyncScraper.__init__ (default)
RetryCount == 2
\* the length under which content counts as a paywall page (line 142)
ShortContent == 200
\* max_concurrent given to AsyncScraper.__init__
MaxConcurrent == 2
\* URLs given to the scrape_urls calls of one behaviour, in total
NumUrls == 3

Batches == {1, 2}
Tasks == Batches \X (1 .. NumUrls)

NoHist == [requests |-> 0, last |-> "none", clean |-> TRUE]
NoResult == [none |-> TRUE]
\* an exception object among gather's results (return_exceptions=True)
Raised == [none |-> FALSE, url |-> 0, content_length |-> 0]

\* the date filter and the fetcher at rest
FilterIdle ==
    /\ f_pc = "off"
    /\ f_results = <<>>
    /\ f_from = 0
    /\ f_to = 0
    /\ f_filtered = <<>>

ResolveIdle ==
    /\ r_pc = "off"
    /\ r_urls = <<>>
    /\ r_replies = <<>>
    /\ r_resolved = <<>>
    /\ r_requests = <<>>

UnitIdle ==
    /\ u_pc = "off"
    /\ u_in = <<>>
    /\ u_out = <<>>

FetchInit ==
    /\ permits = MaxConcurrent
    /\ b_pc = [b \in Batches |-> "idle"]
    /\ b_urls = [b \in Batches |-> 0]
    /\ b_session = [b \in Batches |-> "none"]
    /\ b_result = [b \in Batches |-> <<>>]
    /\ t_pc = [t \in Tasks |-> "unused"]
    /\ t_attempt = [t \in Tasks |-> 0]
    /\ t_result = [t \in Tasks |-> NoResult]
    /\ t_hist = [t \in Tasks |-> NoHist]

SearchIdle ==
    /\ cache_files = <<>>
    /\ disk = "ok"
    /\ now = 0
    /\ session = NoSession
    /\ upstream = <<>>
    /\ pc = [c \in Callers |-> "off"]
    /\ call = [c \in Callers |-> NoCall]
    /\ res = [c \in Callers |-> <<>>]
    /\ info = [c \in Callers |-> NoInfo]

Init == SearchInit /\ FilterIdle /\ ResolveIdle /\ UnitIdle /\ FetchInit

(***************************************************************************)
(* search_news up to its first suspension: lines 111-159.                  *)
(***************************************************************************)
\* rd is how the reading of the cache file goes (one of ReadOutcomes)
SearchStartWith(c, cr, rd) ==
    /\ pc[c] = "idle"
    /\ call' = [call EXCEPT ![c] = cr]
    /\ LET key    == key_of(cr)
           cached == IF cr.use_cache
                     THEN get_from_cache(cache_files, key, now, rd)
                     ELSE CacheNone
           exists == cr.use_cache /\ key \in DOMAIN cache_files
           age    == IF exists THEN now - cache_files[key].mtime ELSE 0
           seen   == [NoInfo EXCEPT !.fresh = exists /\ age <= CacheExpiry,
                                    !.stale = exists /\ age > CacheExpiry,
                                    !.after = {d \in Callers : pc[d] = "done"}]
       IN  IF cached.raised
           THEN /\ pc' = [pc EXCEPT ![c] = "done"]
                /\ res' = [res EXCEPT ![c] = <<>>]
                /\ info' = [info EXCEPT ![c] = [seen EXCEPT !.raised = TRUE]]
                /\ UNCHANGED session
           ELSE IF cr.use_cache /\ truthy(cached)
           THEN /\ pc' = [pc EXCEPT ![c] = "done"]
                /\ res' = [res EXCEPT ![c] = slice_to(cached.data, cr.max_results)]
                /\ info' = [info EXCEPT ![c] = [seen EXCEPT !.hit = TRUE]]
                /\ UNCHANGED session
           ELSE /\ pc' = [pc EXCEPT ![c] = "feed"]
                /\ res' = [res EXCEPT ![c] = <<>>]
                /\ session' = create_session(session)
                /\ info' = [info EXCEPT ![c] =
                       [seen EXCEPT !.feed_requests = feed_round_trips(cr),
                                    !.new_sessions =
                                        IF session' # session THEN 1 ELSE 0]]
    /\ UNCHANGED <<cache_files, disk, now, upstream>>
    /\ UNCHANGED <<filter_vars, resolve_vars, unit_vars, fetch_vars>>

\* the cache file, when there is one, is read without interference
SearchStart(c, cr) == SearchStartWith(c, cr, "ok")

\* Finish writing the cache whatever use_cache says
FinishAlwaysWrites(c, results, inf) ==
    LET w == save_to_cache(cache_files, key_of(call[c]), results, now, disk)
    IN  /\ pc' = [pc EXCEPT ![c] = "done"]
        /\ res' = [res EXCEPT ![c] = IF w.raised THEN <<>> ELSE results]
        /\ cache_files' = w.files
        /\ info' = [info EXCEPT ![c] =
               [inf EXCEPT !.cache_writes = 1,
                           !.write_failed = ~w.saved,
                           !.raised = w.raised]]

\* lines 246-251: cache write and return; inf is what the call did so far
Finish(c, results, inf) ==
    LET w == IF call[c].use_cache
             THEN save_to_cache(cache_files, key_of(call[c]), results, now, disk)
             ELSE [files |-> cache_files, saved |-> FALSE, raised |-> FALSE]
    IN  /\ pc' = [pc EXCEPT ![c] = "done"]
        /\ res' = [res EXCEPT ![c] = IF w.raised THEN <<>> ELSE results]
        /\ cache_files' = w.files
        /\ info' = [info EXCEPT ![c] =
               [inf EXCEPT !.cache_writes = IF call[c].use_cache THEN 1 ELSE 0,
                           !.write_failed = call[c].use_cache /\ ~w.saved,
                           !.raised = w.raised]]

(***************************************************************************)
(* The feed request completes: lines 159-251 up to the next suspension.    *)
(***************************************************************************)
FeedResponse(c, outcome) ==
    /\ pc[c] = "feed"
    /\ LET got      == search_google_news(outcome, upstream)
           filtered == filter_by_date(got.results, from_of(c), to_of(c))
           sorted   == slice_to(sorted_desc(filtered), call[c].max_results)
           noted    == [info[c] EXCEPT !.outcome =
                           IF outcome \in FeedFailures THEN "failed" ELSE "ok"]
       IN  IF got.raised
           THEN /\ pc' = [pc EXCEPT ![c] = "done"]
                /\ res' = [res EXCEPT ![c] = <<>>]
                /\ info' = [info EXCEPT ![c] = [noted EXCEPT !.raised = TRUE]]
                /\ UNCHANGED cache_files
           ELSE IF call[c].resolve_urls /\ google_urls(sorted) # {}
           THEN /\ pc' = [pc EXCEPT ![c] = "resolve"]
                /\ res' = [res EXCEPT ![c] = sorted]
                /\ info' = [info EXCEPT ![c] =
                       [noted EXCEPT !.resolve_requests =
                                         Cardinality(needs_request(sorted))]]
                /\ UNCHANGED cache_files
           ELSE Finish(c, sorted, noted)
    /\ UNCHANGED <<disk, now, session, upstream, call>>
    /\ UNCHANGED <<filter_vars, resolve_vars, unit_vars, fetch_vars>>

(***************************************************************************)
(* asyncio.gather of the resolution tasks completes: lines 239-251.        *)
(***************************************************************************)
ResolveDone(c, replies) ==
    /\ pc[c] = "resolve"
    /\ Finish(c, apply_resolved(res[c], replies), info[c])
    /\ UNCHANGED <<disk, now, session, upstream, call>>
    /\ UNCHANGED <<filter_vars, resolve_vars, unit_vars, fetch_vars>>

\* close(): lines 79-82
Close ==
    /\ \A c \in Callers : pc[c] \in {"idle", "done"}
    /\ session.ref = "open"
    /\ session' = close_session(session)
    /\ UNCHANGED <<cache_files, disk, now, upstream, pc, call, res, info>>
    /\ UNCHANGED <<filter_vars, resolve_vars, unit_vars, fetch_vars>>

\* time passes
Tick ==
    /\ now < MaxClock
    /\ now' = now + 1
    /\ UNCHANGED <<cache_files, disk, session, upstream, pc, call, res, info>>
    /\ UNCHANGED <<filter_vars, resolve_vars, unit_vars, fetch_vars>>

Replies(c) == [needs_request(res[c]) -> ReplyKinds]

Next ==
    \/ \E c \in Callers, cr \in Criteria : SearchStart(c, cr)
    \/ \E c \in Callers, o \in {"ok"} \cup FeedFailures : FeedResponse(c, o)
    \/ \E c \in Callers : \E r \in Replies(c) : ResolveDone(c, r)
    \/ Close
    \/ Tick

Spec == Init /\ [][Next]_vars

(***************************************************************************)
(* WriteFailSpec: search_news on a cache directory that stops being        *)
(* writable.  The callers use the cache and ask for MaxFeedLen results.    *)
(***************************************************************************)
\* from now on open(cache_file, "w") raises
DiskFails ==
    /\ disk = "ok"
    /\ disk' \in WriteOutcomes \ {"ok"}
    /\ UNCHANGED <<cache_files, now, session, upstream, pc, call, res, info>>
    /\ UNCHANGED <<filter_vars, resolve_vars, unit_vars, fetch_vars>>

FailCriteria ==
    {cr \in Criteria :
        cr.use_cache /\ \A m \in MaxResultsArgs : m <= cr.max_results}

WriteFailNext ==
    \/ \E c \in Callers, cr \in FailCriteria : SearchStart(c, cr)
    \/ \E c \in Callers, o \in {"ok"} \cup FeedFailures : FeedResponse(c, o)
    \/ \E c \in Callers : \E r \in Replies(c) : ResolveDone(c, r)
    \/ Tick
    \/ DiskFails

WriteFailSpec == Init /\ [][WriteFailNext]_vars

(***************************************************************************)
(* FilterSpec: the filter loop of search_news (lines 163-218) applied to   *)
(* any list of stubs and any pair of dates.                                *)
(***************************************************************************)
FilterLinks == {DirectLink}

\* the stubs _search_google_news can hand to the filter: publish_date is
\* always a string there (entry.get("published", ""), line 296)
FilterStubs == {Stub("t", l, p) : l \in FilterLinks, p \in PubStrings}

RECURSIVE SeqsUpTo(_, _)
SeqsUpTo(S, n) ==
    IF n = 0 THEN {<<>>}
    ELSE LET shorter == SeqsUpTo(S, n - 1)
         IN  shorter \cup {Append(q, x) : q \in shorter, x \in S}

FilterInit ==
    /\ f_pc = "input"
    /\ f_results \in SeqsUpTo(FilterStubs, MaxFeedLen)
    /\ f_from \in Days
    /\ f_to \in Days
    /\ f_filtered = <<>>
    /\ SearchIdle
    /\ ResolveIdle
    /\ UnitIdle
    /\ FetchInit

FilterRun ==
    /\ f_pc = "input"
    /\ f_pc' = "output"
    /\ f_filtered' = filter_by_date(f_results, f_from, f_to)
    /\ UNCHANGED <<f_results, f_from, f_to>>
    /\ UNCHANGED <<search_vars, resolve_vars, unit_vars, fetch_vars>>

FilterSpec == FilterInit /\ [][FilterRun]_vars

(***************************************************************************)
(* ResolveSpec: _batch_resolve_urls (lines 331-377) applied to any list of *)
(* redirect links, with any answer of the server to each request.          *)
(***************************************************************************)
\* the links search_news hands over: those with "news.google.com"
RedirectLinks == {GoogleParamLink, GoogleOpaqueLink}

ResolveInit ==
    /\ r_pc = "input"
    /\ r_urls \in SeqsUpTo(RedirectLinks, MaxFeedLen)
    /\ r_replies \in SeqsUpTo(ReplyKinds, MaxFeedLen)
    /\ Len(r_replies) = Len(r_urls)
    /\ r_resolved = <<>>
    /\ r_requests = <<>>
    /\ SearchIdle
    /\ FilterIdle
    /\ UnitIdle
    /\ FetchInit

ResolveRun ==
    /\ r_pc = "input"
    /\ r_pc' = "output"
    /\ r_resolved' = batch_resolve_urls(r_urls, r_replies)
    /\ r_requests' = [i \in 1 .. Len(r_urls) |-> extract_requests(r_urls[i])]
    /\ UNCHANGED <<r_urls, r_replies>>
    /\ UNCHANGED <<search_vars, filter_vars, unit_vars, fetch_vars>>

ResolveSpec == ResolveInit /\ [][ResolveRun]_vars

(***************************************************************************)
(* CacheGetSpec: _get_from_cache (lines 396-425) applied to any state of   *)
(* the key's file, at any time, with any interference.                     *)
(***************************************************************************)
GetKey == key_of(CHOOSE cr \in Criteria : TRUE)

\* what the key's file may hold: lists search_news wrote, or a text that
\* broke off
StoredLists ==
    SeqsUpTo({Stub("t1", DirectLink, PubStr("rfc822", 1)),
              Stub("t2", GoogleOpaqueLink, PubStr("isoZ", 2))}, MaxFeedLen)

StoredFiles ==
    {written(r, t) : r \in StoredLists, t \in 0 .. MaxClock}
        \cup {broken_off(t) : t \in 0 .. MaxClock}

GetInputs ==
    [files : {<<>>} \cup {GetKey :> f : f \in StoredFiles},
     time  : 0 .. MaxClock,
     rd    : ReadOutcomes]

CacheGetInit ==
    /\ u_pc = "input"
    /\ u_in \in {i \in GetInputs :
                    \A k \in DOMAIN i.files : i.files[k].mtime <= i.time}
    /\ u_out = <<>>
    /\ SearchIdle
    /\ FilterIdle
    /\ ResolveIdle
    /\ FetchInit

CacheGetRun ==
    /\ u_pc = "input"
    /\ u_pc' = "output"
    /\ u_out' = get_from_cache(u_in.files, GetKey, u_in.time, u_in.rd)
    /\ UNCHANGED u_in
    /\ UNCHANGED <<search_vars, filter_vars, resolve_vars, fetch_vars>>

CacheGetSpec == CacheGetInit /\ [][CacheGetRun]_vars

(***************************************************************************)
(* WindowSpec: the start of search_news (lines 111-145) and its date       *)
(* filter for any pair of date arguments: None, a date, a datetime, a      *)
(* string in one of the two accepted formats, or a string in neither       *)
(* ("str_bad": the day it was meant to name is lost to strptime).          *)
(***************************************************************************)
DateArgs ==
    {DateArg("none", 0)}
        \cup {DateArg(k, d) :
                 k \in {"date", "datetime", "str_date", "str_datetime", "str_bad"},
                 d \in Days}

\* from_date and to_date after lines 111-140, the cache key of line 145,
\* and what the date filter keeps of the feed's results
search_window(from_arg, to_arg, results) ==
    LET from_date == normalize_from(from_arg)
        to_date   == normalize_to(to_arg)
        query     == CHOOSE q \in Queries : TRUE
        topic     == CHOOSE t \in Topics : TRUE
    IN  [from_date |-> from_date,
         to_date   |-> to_date,
         cache_key |-> generate_cache_key(query, topic, from_date, to_date),
         filtered  |-> filter_by_date(results, from_date, to_date)]

WindowInit ==
    /\ u_pc = "input"
    /\ u_in \in
            [from_date : DateArgs, to_date : DateArgs, results : StoredLists]
    /\ u_out = <<>>
    /\ SearchIdle
    /\ FilterIdle
    /\ ResolveIdle
    /\ FetchInit

WindowRun ==
    /\ u_pc = "input"
    /\ u_pc' = "output"
    /\ u_out' = search_window(u_in.from_date, u_in.to_date, u_in.results)
    /\ UNCHANGED u_in
    /\ UNCHANGED <<search_vars, filter_vars, resolve_vars, fetch_vars>>

WindowSpec == WindowInit /\ [][WindowRun]_vars

(***************************************************************************)
(* KeySpec: _generate_cache_key (lines 379-394) on any query, topic and    *)
(* pair of dates.  A string is the list of its pieces, "_" being a piece   *)
(* of its own; the topic is None (<<>>) or a string.                       *)
(***************************************************************************)
KeyCriteria ==
    [query     : {<<"ai">>, <<"ai", "_", "chips">>},
     topic     : {<<>>, <<"None">>, <<"chips">>, <<"chips", "_", "None">>},
     from_date : Days,
     to_date   : Days]

KeyInit ==
    /\ u_pc = "input"
    /\ u_in \in KeyCriteria
    /\ u_out = <<>>
    /\ SearchIdle
    /\ FilterIdle
    /\ ResolveIdle
    /\ FetchInit

KeyRun ==
    /\ u_pc = "input"
    /\ u_pc' = "output"
    /\ u_out' = generate_cache_key(u_in.query, u_in.topic,
                                   u_in.from_date, u_in.to_date)
    /\ UNCHANGED u_in
    /\ UNCHANGED <<search_vars, filter_vars, resolve_vars, fetch_vars>>

KeySpec == KeyInit /\ [][KeyRun]_vars

(***************************************************************************)
(* ArticleSpec: get_article_content and _parse_with_newspaper3k            *)
(* (news_feed_search.py lines 450-517) for any URL, any way the request    *)
(* and the parsing end, and any content of the cache directory.            *)
(***************************************************************************)
ArticleUrls == {DirectLink, RedirectTarget, "not a url"}

\* How the call goes: the import of newspaper fails; session.get raises
\* (aiohttp.ClientError) or times out; the status is not 200; reading the
\* body raises; run_in_executor raises; newspaper fails inside
\* _parse_with_newspaper3k; or the article is parsed.
ArticleOutcomes ==
    {"import_error", "neterror", "timeout", "non200", "read_error",
     "executor_error", "parse_error", "ok"}

\* {"url": url, "error": ...}
ErrorDict(url, message) == [url |-> url, error |-> message]

\* the dict of lines 501-511
FullArticle(url) ==
    [url |-> url, title |-> "title", authors |-> <<>>, publish_date |-> NonePub,
     text |-> "text", top_image |-> "", images |-> <<>>, keywords |-> <<>>,
     summary |-> ""]

\* _parse_with_newspaper3k: lines 485-517
parse_with_newspaper3k(url, parsed) ==
    IF parsed THEN FullArticle(url) ELSE ErrorDict(url, "parse")

\* get_article_content without its try/except
get_article_content_unguarded(url, outcome, files) ==
    LET back(v, r) == [value |-> v, raised |-> r, files |-> files,
                       cache_reads |-> 0, cache_writes |-> 0]
    IN  IF outcome = "non200" THEN back(ErrorDict(url, "HTTP error"), FALSE)
        ELSE IF outcome = "parse_error"
        THEN back(parse_with_newspaper3k(url, FALSE), FALSE)
        ELSE IF outcome = "ok" THEN back(parse_with_newspaper3k(url, TRUE), FALSE)
        ELSE back(<<>>, TRUE)

\* get_article_content: what it returns, whether an exception leaves it,
\* and the cache directory after it with the calls it made to
\* _get_from_cache and _save_to_cache (none: lines 461-483)
get_article_content(url, outcome, files) ==
    LET back(v) == [value |-> v, raised |-> FALSE, files |-> files,
                    cache_reads |-> 0, cache_writes |-> 0]
    IN  IF outcome = "non200" THEN back(ErrorDict(url, "HTTP error"))
        ELSE IF outcome = "parse_error"
        THEN back(parse_with_newspaper3k(url, FALSE))
        ELSE IF outcome = "ok" THEN back(parse_with_newspaper3k(url, TRUE))
        ELSE back(ErrorDict(url, outcome))

ArticleInit ==
    /\ u_pc = "input"
    /\ u_in \in
            [url     : ArticleUrls,
             outcome : ArticleOutcomes,
             files   : {<<>>} \cup {GetKey :> f : f \in StoredFiles}]
    /\ u_out = <<>>
    /\ SearchIdle
    /\ FilterIdle
    /\ ResolveIdle
    /\ FetchInit

ArticleRun ==
    /\ u_pc = "input"
    /\ u_pc' = "output"
    /\ u_out' = get_article_content(u_in.url, u_in.outcome, u_in.files)
    /\ UNCHANGED u_in
    /\ UNCHANGED <<search_vars, filter_vars, resolve_vars, fetch_vars>>

ArticleSpec == ArticleInit /\ [][ArticleRun]_vars

(***************************************************************************)
(* ExtractSpec: the two content extractors, AsyncScraper.                  *)
(* _parse_with_newspaper (async_scraper.py lines 164-216) and              *)
(* NewsFeedSearch._parse_with_newspaper3k (news_feed_search.py lines       *)
(* 485-517), on any URL and HTML, with newspaper failing or not.  A URL    *)
(* is the list of its pieces between "/"; an Optional[str] is <<>> for     *)
(* None and <<s>> for the string s.                                        *)
(***************************************************************************)
ExtractUrls ==
    { <<"https:", "", "www.site.example", "a">>,
      <<"https:", "", "site.example", "a">>,
      <<"site.example", "a">>,
      <<"not a url">> }

\* where the extraction breaks: nowhere, in Article.set_html, in
\* Article.parse, or in urlparse
ExtractFailures == {"none", "set_html", "parse", "urlparse"}

\* urlparse(url).netloc: the piece after "//" when the URL has one
netloc(url) == IF Len(url) > 2 /\ url[2] = "" THEN url[3] ELSE ""

\* str.replace('www.', '')
replace_www(host) == IF host = "www.site.example" THEN "site.example" ELSE host

\* url.split('/')[2] if len(url.split('/')) > 2 else None
split_source(url) == IF Len(url) > 2 THEN <<url[3]>> ELSE <<>>

RawArticle(url, title, content, html, source) ==
    [url |-> url, title |-> title, content |-> content, html |-> html,
     publish_date |-> <<>>, authors |-> <<>>, source |-> source,
     keywords |-> <<>>, summary |-> <<>>, images |-> {}]

\* _parse_with_newspaper: lines 164-216
parse_with_newspaper(url, html, failure) ==
    IF failure \in {"set_html", "parse"}
    THEN [raised |-> FALSE,
          value  |-> RawArticle(url, <<>>, <<>>, <<html>>, split_source(url))]
    ELSE [raised |-> FALSE,
          value  |-> RawArticle(url, <<"title">>, <<html>>, <<html>>,
                                IF failure = "urlparse" THEN split_source(url)
                                ELSE <<replace_www(netloc(url))>>)]

\* the extractor named by which
extract(which, url, html, failure) ==
    IF which = "scraper" THEN parse_with_newspaper(url, html, failure)
    ELSE [raised |-> FALSE,
          value  |-> parse_with_newspaper3k(url, failure \notin {"set_html", "parse"})]

ExtractInit ==
    /\ u_pc = "input"
    /\ u_in \in
            [which : {"scraper", "engine"}, url : ExtractUrls, html : {"", "page", "cut off"},
             failure : ExtractFailures]
    /\ u_out = <<>>
    /\ SearchIdle
    /\ FilterIdle
    /\ ResolveIdle
    /\ FetchInit

ExtractRun ==
    /\ u_pc = "input"
    /\ u_pc' = "output"
    /\ u_out' = extract(u_in.which, u_in.url, u_in.html, u_in.failure)
    /\ UNCHANGED u_in
    /\ UNCHANGED <<search_vars, filter_vars, resolve_vars, fetch_vars>>

ExtractSpec == ExtractInit /\ [][ExtractRun]_vars

(***************************************************************************)
(* DateSpec: the host's two date endpoints, news_search_by_date_range      *)
(* (app.py lines 425-537) and news_search_by_date (lines 540-649), on any  *)
(* query parameters and with the search succeeding or raising.  A query    *)
(* parameter is <<>> when absent (None) and <<s>> for the string s.  The   *)
(* whole body of each endpoint is one try block whose handler is           *)
(* "except Exception"; HTTPException is a subclass of Exception.           *)
(***************************************************************************)
\* app.py lines 444-537.  body is what the try block does: it ends by
\* raising (status is the HTTPException's code, or 0 for another
\* exception) or by returning the articles; the handler at lines 535-537
\* turns whatever was raised into HTTPException(500).
news_search_by_date_range(symbol, start_date, end_date, outcome) ==
    LET absent(d) == d = <<>> \/ d = <<"">>
        query == IF symbol = "GENERAL" \/ symbol = ""
                 THEN "business news" ELSE symbol
        body  == IF absent(start_date) \/ absent(end_date)
                 THEN [raised |-> TRUE, status |-> 400, created |-> FALSE,
                       searches |-> <<>>, closed |-> FALSE]
                 ELSE [raised   |-> outcome = "raises",
                       status   |-> 0,
                       created  |-> TRUE,
                       searches |-> << [query     |-> query,
                                        from_date |-> start_date \o <<"T00:01:00">>,
                                        to_date   |-> end_date \o <<"T23:59:59">>] >>,
                       closed   |-> outcome = "ok"]
    IN  [body EXCEPT !.status = IF body.raised THEN 500 ELSE 200]

\* app.py lines 557-649, built like the date-range endpoint
news_search_by_date(symbol, date, outcome) ==
    LET absent(d) == d = <<>> \/ d = <<"">>
        query == IF symbol = "GENERAL" \/ symbol = ""
                 THEN "business news" ELSE symbol
        body  == IF absent(date)
                 THEN [raised |-> TRUE, status |-> 400, created |-> FALSE,
                       searches |-> <<>>, closed |-> FALSE]
                 ELSE [raised   |-> outcome = "raises",
                       status   |-> 0,
                       created  |-> TRUE,
                       searches |-> << [query     |-> query,
                                        from_date |-> date \o <<"T00:01:00">>,
                                        to_date   |-> date \o <<"T23:59:59">>] >>,
                       closed   |-> outcome = "ok"]
    IN  [body EXCEPT !.status = IF body.raised THEN 500 ELSE 200]

DateInit ==
    /\ u_pc = "input"
    /\ u_in \in
            [endpoint   : {"date-range", "date"},
             symbol     : {"GENERAL", "", "AAPL"},
             start_date : {<<>>, <<"">>, <<"2024-01-01">>, <<"2024-01-02">>},
             end_date   : {<<>>, <<"">>, <<"2024-01-01">>, <<"2024-01-02">>},
             outcome    : {"ok", "raises"}]
    /\ u_in.endpoint = "date" => u_in.end_date = <<>>
    /\ u_out = <<>>
    /\ SearchIdle
    /\ FilterIdle
    /\ ResolveIdle
    /\ FetchInit

\* for the single-date endpoint the parameter "date" is carried in start_date
DateRun ==
    /\ u_pc = "input"
    /\ u_pc' = "output"
    /\ u_out' = IF u_in.endpoint = "date-range"
                THEN news_search_by_date_range(u_in.symbol, u_in.start_date,
                                               u_in.end_date, u_in.outcome)
                ELSE news_search_by_date(u_in.symbol, u_in.start_date,
                                         u_in.outcome)
    /\ UNCHANGED u_in
    /\ UNCHANGED <<search_vars, filter_vars, resolve_vars, fetch_vars>>

DateSpec == DateInit /\ [][DateRun]_vars

(***************************************************************************)
(* SessionOpsSpec: any sequence of search_news, get_article_content and    *)
(* close calls on one NewsFeedSearch, as to what they do to self.session   *)
(* (lines 64-82).  create_session has no await and close has one, after    *)
(* its test, so the calls of concurrent coroutines reach the session one   *)
(* after the other.                                                        *)
(***************************************************************************)
MaxOps == 4

SessionOpsInit ==
    /\ u_pc = "input"
    /\ u_in \in SeqsUpTo(SessionOps, MaxOps)
    /\ u_out = <<>>
    /\ SearchIdle
    /\ FilterIdle
    /\ ResolveIdle
    /\ FetchInit

SessionOpsRun ==
    /\ u_pc = "input"
    /\ u_pc' = "output"
    /\ u_out' = session_trace(u_in)
    /\ UNCHANGED u_in
    /\ UNCHANGED <<search_vars, filter_vars, resolve_vars, fetch_vars>>

SessionOpsSpec == SessionOpsInit /\ [][SessionOpsRun]_vars

(***************************************************************************)
(* BackoffSpec: one scrape_url (async_scraper.py lines 92-162) as a        *)
(* function of retry_count, retry_delay and how each request ends; what it *)
(* returns, the requests it sends and the backoff sleeps between them.     *)
(***************************************************************************)
\* the largest retry_count and retry_delay given to AsyncScraper.__init__
MaxRetries == 3
MaxDelay == 2

\* how a request ends: lines 117, 142, 149, 157
AttemptOutcomes == {"non200", "neterror", "exception", "short", "full"}

\* backoff that doubles, as the comment of line 120 names it
backoff_exponential(retry_delay, attempt) == retry_delay * 2 ^ attempt

\* self.retry_delay * (attempt + 1): lines 120, 144, 151
backoff(retry_delay, attempt) == retry_delay * (attempt + 1)

\* the loop of line 104 from iteration attempt on
RECURSIVE scrape_url_from(_, _, _, _)
scrape_url_from(attempt, outcomes, retry_count, retry_delay) ==
    IF attempt > retry_count
    THEN [requests |-> 0, waits |-> <<>>, returned |-> "None"]
    ELSE LET o    == outcomes[attempt + 1]
             rest == scrape_url_from(attempt + 1, outcomes, retry_count, retry_delay)
             again == [requests |-> rest.requests + 1,
                       waits    |-> <<backoff(retry_delay, attempt)>> \o rest.waits,
                       returned |-> rest.returned]
             stop(v) == [requests |-> 1, waits |-> <<>>, returned |-> v]
         IN  CASE o = "non200" ->
                    IF attempt < retry_count THEN again ELSE stop("None")
               [] o = "neterror" ->
                    IF attempt < retry_count THEN again ELSE stop("None")
               [] o = "exception" -> stop("None")
               [] o = "short" ->
                    IF attempt < retry_count THEN again ELSE stop("short")
               [] OTHER -> stop("full")

scrape_url(outcomes, retry_count, retry_delay) ==
    scrape_url_from(0, outcomes, retry_count, retry_delay)

\* the sequences of n elements of S
SeqsOf(S, n) == [1 .. n -> S]

BackoffInit ==
    /\ u_pc = "input"
    /\ u_in \in
            UNION {[outcomes    : SeqsOf(AttemptOutcomes, rc + 1),
                    retry_count : {rc},
                    retry_delay : 1 .. MaxDelay] : rc \in 0 .. MaxRetries}
    /\ u_out = <<>>
    /\ SearchIdle
    /\ FilterIdle
    /\ ResolveIdle
    /\ FetchInit

BackoffRun ==
    /\ u_pc = "input"
    /\ u_pc' = "output"
    /\ u_out' = scrape_url(u_in.outcomes, u_in.retry_count, u_in.retry_delay)
    /\ UNCHANGED u_in
    /\ UNCHANGED <<search_vars, filter_vars, resolve_vars, fetch_vars>>

BackoffSpec == BackoffInit /\ [][BackoffRun]_vars

(***************************************************************************)
(* The concurrent fetcher: scrape_urls (lines 53-90) and scrape_url        *)
(* (lines 92-162).  A task is (call, position of its URL in urls).         *)
(*   t_pc: "unused"   no such task                                         *)
(*         "waiting"  at "async with self.semaphore"                       *)
(*         "inflight" holds a permit: slept, sent session.get, and is      *)
(*                    waiting for the response and its extraction          *)
(*         "done"     scrape_url returned, permit released                 *)
(* The sleeps before a request (back-off and jitter) touch nothing shared  *)
(* and are taken together with the sending of the request.                 *)
(***************************************************************************)
ContentLengths == {ShortContent - 1, ShortContent}

Article(i, n) == [none |-> FALSE, url |-> i, content_length |-> n]

TasksOf(b) == {t \in Tasks : t[1] = b /\ t[2] <= b_urls[b]}

Submitted == b_urls[1] + b_urls[2]

\* The request history of a task: how many requests it sent, how the one
\* that ended the task ended ("failed": a status other than 200 or a
\* network error, "exception", "short", "full"; "none" while the task
\* runs), and clean: every request before the last met a non-200 status
\* and, once the task has ended, the last one a full response.
kind_of(outcome) == IF outcome \in {"non200", "neterror"} THEN "failed" ELSE outcome

note(h, outcome, final) ==
    [requests |-> h.requests,
     last     |-> IF final THEN kind_of(outcome) ELSE h.last,
     clean    |-> h.clean /\ outcome = (IF final THEN "full" ELSE "non200")]

\* scrape_urls lines 63-79: the tasks are created and gathered.  The calls
\* are interchangeable: call 2 is the one that starts second.
ScrapeUrls(b, n) ==
    /\ b_pc[b] = "idle"
    /\ \A a \in Batches : a < b => b_pc[a] # "idle"
    /\ Submitted + n <= NumUrls
    /\ b_urls' = [b_urls EXCEPT ![b] = n]
    /\ IF n = 0
       THEN /\ b_pc' = [b_pc EXCEPT ![b] = "returned"]
            /\ UNCHANGED <<b_session, t_pc>>
       ELSE /\ b_pc' = [b_pc EXCEPT ![b] = "running"]
            /\ b_session' = [b_session EXCEPT ![b] = "open"]
            /\ t_pc' = [t \in Tasks |->
                   IF t[1] = b /\ t[2] <= n THEN "waiting" ELSE t_pc[t]]
    /\ UNCHANGED <<permits, b_result, t_attempt, t_result, t_hist>>
    /\ UNCHANGED <<search_vars, filter_vars, resolve_vars, unit_vars>>

\* Acquire without waiting for a permit
AcquireUnguarded(t) ==
    /\ t_pc[t] = "waiting"
    /\ permits' = permits - 1
    /\ t_pc' = [t_pc EXCEPT ![t] = "inflight"]
    /\ t_attempt' = [t_attempt EXCEPT ![t] = 0]
    /\ t_hist' = [t_hist EXCEPT ![t].requests = 1]
    /\ UNCHANGED <<b_pc, b_urls, b_session, b_result, t_result>>
    /\ UNCHANGED <<search_vars, filter_vars, resolve_vars, unit_vars>>

\* lines 103-116: async with self.semaphore, then the first request
Acquire(t) ==
    /\ t_pc[t] = "waiting"
    /\ permits > 0
    /\ permits' = permits - 1
    /\ t_pc' = [t_pc EXCEPT ![t] = "inflight"]
    /\ t_attempt' = [t_attempt EXCEPT ![t] = 0]
    /\ t_hist' = [t_hist EXCEPT ![t].requests = 1]
    /\ UNCHANGED <<b_pc, b_urls, b_session, b_result, t_result>>
    /\ UNCHANGED <<search_vars, filter_vars, resolve_vars, unit_vars>>

\* ReturnFrom that keeps the permit when an unexpected exception ends the task
ReturnFromLeaks(t, v, outcome) ==
    /\ t_pc' = [t_pc EXCEPT ![t] = "done"]
    /\ t_result' = [t_result EXCEPT ![t] = v]
    /\ permits' = IF outcome = "exception" THEN permits ELSE permits + 1
    /\ t_hist' = [t_hist EXCEPT ![t] = note(@, outcome, TRUE)]
    /\ UNCHANGED t_attempt

\* scrape_url returns value v: the permit is released
ReturnFrom(t, v, outcome) ==
    /\ t_pc' = [t_pc EXCEPT ![t] = "done"]
    /\ t_result' = [t_result EXCEPT ![t] = v]
    /\ permits' = permits + 1
    /\ t_hist' = [t_hist EXCEPT ![t] = note(@, outcome, TRUE)]
    /\ UNCHANGED t_attempt

\* range(self.retry_count + 1), line 104
Attempts == RetryCount + 1

\* may_retry allowing one retry less
may_retry_once_less(attempt) == attempt < RetryCount - 1

\* may_retry that holds on the final attempt too
may_retry_on_final(attempt) == attempt <= RetryCount

\* "attempt < self.retry_count", lines 119, 142 and 150
may_retry(attempt) == attempt < RetryCount

\* Retry starting over with attempt 0, whatever the range
RetryRestart(t, outcome) ==
    /\ t_attempt' = [t_attempt EXCEPT ![t] = 0]
    /\ t_hist' = [t_hist EXCEPT ![t] =
                      [note(@, outcome, FALSE) EXCEPT !.requests = @ + 1]]
    /\ UNCHANGED <<permits, t_pc, t_result>>

\* Retry giving the permit back for the time of the back-off
RetryReleases(t, outcome) ==
    IF t_attempt[t] + 1 < RetryCount + 1
    THEN /\ t_attempt' = [t_attempt EXCEPT ![t] = @ + 1]
         /\ t_hist' = [t_hist EXCEPT ![t] =
                           [note(@, outcome, FALSE) EXCEPT !.requests = @ + 1]]
         /\ permits' = permits + 1
         /\ UNCHANGED <<t_pc, t_result>>
    ELSE ReturnFrom(t, NoResult, outcome)

\* Retry whose loop variable never reaches the end of the range
RetryForever(t, outcome) ==
    /\ t_attempt' = [t_attempt EXCEPT ![t] = IF @ = 0 THEN 1 ELSE 0]
    /\ t_hist' = [t_hist EXCEPT ![t] = note(@, outcome, FALSE)]
    /\ UNCHANGED <<permits, t_pc, t_result>>

\* "continue" or the end of an except clause: the next iteration sleeps and
\* sends the next request; when the range is used up, line 162 returns None
Retry(t, outcome) ==
    IF t_attempt[t] + 1 < Attempts
    THEN /\ t_attempt' = [t_attempt EXCEPT ![t] = @ + 1]
         /\ t_hist' = [t_hist EXCEPT ![t] =
                           [note(@, outcome, FALSE) EXCEPT !.requests = @ + 1]]
         /\ UNCHANGED <<permits, t_pc, t_result>>
    ELSE ReturnFrom(t, NoResult, outcome)

\* lines 116-159: the request ends with a status other than 200, with
\* aiohttp.ClientError or asyncio.TimeoutError ("neterror"), with another
\* exception ("exception"), or with status 200 and a text from which
\* _parse_with_newspaper extracts n characters of content ("ok200")
Response(t, status, n) ==
    /\ t_pc[t] = "inflight"
    /\ CASE status = "non200" ->
              IF may_retry(t_attempt[t]) THEN Retry(t, status)
              ELSE ReturnFrom(t, NoResult, status)
         [] status = "neterror" ->
              IF may_retry(t_attempt[t]) THEN Retry(t, status)
              ELSE ReturnFrom(t, NoResult, status)
         [] status = "exception" -> ReturnFrom(t, NoResult, status)
         [] OTHER ->
              LET o == IF n < ShortContent THEN "short" ELSE "full"
              IN  IF n < ShortContent /\ may_retry(t_attempt[t])
                  THEN Retry(t, o)
                  ELSE ReturnFrom(t, Article(t[2], n), o)
    /\ UNCHANGED <<b_pc, b_urls, b_session, b_result>>
    /\ UNCHANGED <<search_vars, filter_vars, resolve_vars, unit_vars>>

\* valid_results keeping None in the place of a failed URL
RECURSIVE valid_results_padded(_, _)
valid_results_padded(b, n) ==
    IF n = 0 THEN <<>>
    ELSE Append(valid_results_padded(b, n - 1), t_result[<<b, n>>])

\* lines 81-87: the results that are neither exceptions nor None, in order
RECURSIVE valid_results(_, _)
valid_results(b, n) ==
    IF n = 0 THEN <<>>
    ELSE LET r == t_result[<<b, n>>]
         IN  IF r = Raised THEN valid_results(b, n - 1)
             ELSE IF r = NoResult THEN valid_results(b, n - 1)
             ELSE Append(valid_results(b, n - 1), r)

\* lines 79-90: gather is complete, the session is left, the list returned
Gather(b) ==
    /\ b_pc[b] = "running"
    /\ \A t \in TasksOf(b) : t_pc[t] = "done"
    /\ b_pc' = [b_pc EXCEPT ![b] = "returned"]
    /\ b_session' = [b_session EXCEPT ![b] = "closed"]
    /\ b_result' = [b_result EXCEPT ![b] = valid_results(b, b_urls[b])]
    /\ UNCHANGED <<permits, b_urls, t_pc, t_attempt, t_result, t_hist>>
    /\ UNCHANGED <<search_vars, filter_vars, resolve_vars, unit_vars>>

Failures == {"non200", "neterror", "exception"}

FetchNext ==
    \/ \E b \in Batches, n \in 0 .. NumUrls : ScrapeUrls(b, n)
    \/ \E t \in Tasks : Acquire(t)
    \/ \E t \in Tasks, st \in Failures : Response(t, st, 0)
    \/ \E t \in Tasks, n \in ContentLengths : Response(t, "ok200", n)
    \/ \E b \in Batches : Gather(b)

FetchSpecInit == FetchInit /\ SearchIdle /\ FilterIdle /\ ResolveIdle /\ UnitIdle

FetchSpec == FetchSpecInit /\ [][FetchNext]_vars

\* FetchFair: one scrape_urls call taken alone, with the event loop's
\* fairness: while a task can run or a request is pending, one of them
\* takes its step (a request ends at the latest by its timeout).
FairTasks == {1} \X (1 .. NumUrls)

FairNext ==
    \/ \E n \in 0 .. NumUrls : ScrapeUrls(1, n)
    \/ \E t \in FairTasks : Acquire(t)
    \/ \E t \in FairTasks, st \in Failures : Response(t, st, 0)
    \/ \E t \in FairTasks, n \in ContentLengths : Response(t, "ok200", n)
    \/ Gather(1)

\* a step of the call once it is made
FairStep ==
    \/ \E t \in FairTasks : Acquire(t)
    \/ \E t \in FairTasks, st \in Failures \cup {"ok200"}, n \in ContentLengths :
           Response(t, st, n)
    \/ Gather(1)

FetchFair ==
    /\ FetchSpecInit
    /\ [][FairNext]_vars
    /\ WF_vars(FairStep)

(***************************************************************************)
(* HostSpec: one request served by the host (api/app.py) or one            *)
(* scrape_urls call, with the event loop's fairness.  rss_search           *)
(* (lines 249-287) and get_article_content (lines 305-321) create a        *)
(* NewsFeedSearch, await its operation, then await close(); an exception   *)
(* leaving the operation goes to "except Exception" and close() is not     *)
(* called.  The cache directory may hold a file from an earlier request.   *)
(***************************************************************************)
\* rss_search passes max_results=20, more than the feed holds here
HostCriteria ==
    {cr \in Criteria : \A m \in MaxResultsArgs : m <= cr.max_results}

HostFiles ==
    {<<>>} \cup {GetKey :> written(r, 0) : r \in StoredLists}

\* Either an endpoint of app.py is about to be called (caller 1 "idle"),
\* or scrape_urls is (caller 1 "off").
HostInit ==
    /\ \/ /\ cache_files \in HostFiles
          /\ upstream \in Upstreams
          /\ pc = [c \in Callers |-> IF c = 1 THEN "idle" ELSE "off"]
       \/ /\ cache_files = <<>>
          /\ upstream = <<>>
          /\ pc = [c \in Callers |-> "off"]
    /\ disk = "ok"
    /\ now = 0
    /\ session = NoSession
    /\ call = [c \in Callers |-> NoCall]
    /\ res = [c \in Callers |-> <<>>]
    /\ info = [c \in Callers |-> NoInfo]
    /\ FilterIdle
    /\ ResolveIdle
    /\ UnitIdle
    /\ FetchInit

\* get_article_content lines 461-468: the import, create_session and the
\* request; when the import fails the except clause returns at once
ArticleStart(c, url, imported) ==
    /\ pc[c] = "idle"
    /\ call' = [call EXCEPT ![c] = [url |-> url]]
    /\ IF imported
       THEN /\ pc' = [pc EXCEPT ![c] = "article"]
            /\ session' = create_session(session)
            /\ info' = [info EXCEPT ![c].new_sessions =
                                        IF session' # session THEN 1 ELSE 0]
            /\ UNCHANGED res
       ELSE LET r == get_article_content(url, "import_error", cache_files)
            IN  /\ pc' = [pc EXCEPT ![c] = "done"]
                /\ res' = [res EXCEPT ![c] = <<r.value>>]
                /\ info' = [info EXCEPT ![c].raised = r.raised,
                                        ![c].outcome = "import_error"]
                /\ UNCHANGED session
    /\ UNCHANGED <<cache_files, disk, now, upstream>>
    /\ UNCHANGED <<filter_vars, resolve_vars, unit_vars, fetch_vars>>

\* get_article_content lines 468-483: the request ends
ArticleResponse(c, outcome) ==
    /\ pc[c] = "article"
    /\ LET r == get_article_content(call[c].url, outcome, cache_files)
       IN  /\ pc' = [pc EXCEPT ![c] = "done"]
           /\ res' = [res EXCEPT ![c] = <<r.value>>]
           /\ info' = [info EXCEPT ![c].raised = r.raised,
                                   ![c].outcome = outcome]
           /\ cache_files' = r.files
    /\ UNCHANGED <<disk, now, session, upstream, call>>
    /\ UNCHANGED <<filter_vars, resolve_vars, unit_vars, fetch_vars>>

\* app.py lines 267-268 and 315-316: "await news_searcher.close()" is the
\* statement after the awaited operation, inside the try: it runs when the
\* operation returned and is skipped when an exception left it
host_close(s, raised) == IF raised THEN s ELSE close_session(s)

\* app.py lines 268-287 and 316-321: the endpoint closes and answers
HostRespond(c) ==
    /\ pc[c] = "done"
    /\ pc' = [pc EXCEPT ![c] = "responded"]
    /\ session' = host_close(session, info[c].raised)
    /\ UNCHANGED <<cache_files, disk, now, upstream, call, res, info>>
    /\ UNCHANGED <<filter_vars, resolve_vars, unit_vars, fetch_vars>>

\* a scrape_urls call is made instead
HostScrape(n) ==
    /\ pc[1] = "off"
    /\ ScrapeUrls(1, n)

HostNext ==
    \/ \E cr \in HostCriteria, rd \in ReadOutcomes : SearchStartWith(1, cr, rd)
    \/ \E o \in {"ok"} \cup FeedFailures : FeedResponse(1, o)
    \/ /\ pc[1] = "resolve"
       /\ \E r \in Replies(1) : ResolveDone(1, r)
    \/ \E u \in ArticleUrls, i \in BOOLEAN : ArticleStart(1, u, i)
    \/ \E o \in ArticleOutcomes \ {"import_error"} : ArticleResponse(1, o)
    \/ HostRespond(1)
    \/ \E n \in 0 .. NumUrls : HostScrape(n)
    \/ \E t \in FairTasks : Acquire(t)
    \/ \E t \in FairTasks, st \in Failures : Response(t, st, 0)
    \/ \E t \in FairTasks, n \in ContentLengths : Response(t, "ok200", n)
    \/ Gather(1)

\* What happens at the latest: every request is made with a timeout
\* (timeout=30 at lines 277 and 468, aiohttp's default total timeout at
\* line 368), so a request that gets no answer ends with
\* asyncio.TimeoutError; and the event loop runs whatever is ready.
HostStep ==
    \/ FeedResponse(1, "neterror")
    \/ /\ pc[1] = "resolve"
       /\ ResolveDone(1, [i \in needs_request(res[1]) |-> "error"])
    \/ ArticleResponse(1, "timeout")
    \/ HostRespond(1)
    \/ FairStep

HostSpec ==
    /\ HostInit
    /\ [][HostNext]_vars
    /\ WF_vars(HostStep)

(***************************************************************************)
(* Properties.                                                             *)
(***************************************************************************)
\* The calendar day a publish_date string names, for the three formats a
\* date is written in (feed-native, ISO-8601, date-only); NoDate otherwise.
NamedDay(s) ==
    IF s.fmt \in {"rfc822", "isoZ", "dateonly"} THEN s.day ELSE NoDate

InWindow(s, from_date, to_date) ==
    LET d == NamedDay(s)
    IN  d = NoDate \/ (from_date <= d /\ d <= to_date)

\* C1: every stub a search returns (from the feed or from the cache), for a
\* window with from_date <= to_date, has a publish_date that names a day
\* inside the window or that names no day at all.
C1_ReturnedDatesInWindow ==
    \A c \in Callers :
        (pc[c] = "done" /\ from_of(c) <= to_of(c)) =>
            \A i \in 1 .. Len(res[c]) :
                InWindow(res[c][i].publish_date, from_of(c), to_of(c))

\* C1 witness: a call answered from the cache returns a dated stub while
\* the feed also held an entry outside its window.
C1_Witness ==
    \E c \in Callers :
        /\ pc[c] = "done" /\ info[c].hit /\ from_of(c) <= to_of(c)
        /\ \E i \in 1 .. Len(res[c]) : NamedDay(res[c][i].publish_date) # NoDate
        /\ \E j \in 1 .. Len(upstream) :
              ~InWindow(entry_to_stub(upstream[j]).publish_date,
                        from_of(c), to_of(c))

\* C2: of two consecutive calls with the same arguments and use_cache, the
\* first a miss and the entry it wrote still within the TTL when the second
\* looks it up, the second issues no feed request and returns the same list,
\* whatever the first returned.
C2_CacheIdempotence ==
    \A a, b \in Callers :
        ( /\ a # b /\ pc[a] = "done" /\ pc[b] = "done"
          /\ a \in info[b].after
          /\ call[a] = call[b] /\ call[a].use_cache
          /\ info[a].feed_requests = 1
          /\ info[b].fresh )
        => (info[b].feed_requests = 0 /\ res[b] = res[a])

\* C3: a call with use_cache that finds an entry for its key within the TTL
\* issues no feed request, no resolution request and creates no session.
C3_FreshEntryNoNetwork ==
    \A c \in Callers :
        (pc[c] \in {"feed", "resolve", "done"} /\ call[c].use_cache /\ info[c].fresh)
        => /\ info[c].feed_requests = 0
           /\ info[c].resolve_requests = 0
           /\ info[c].new_sessions = 0

\* C4: an entry older than the TTL is absent for get, a call with use_cache
\* that finds such an entry issues a fresh feed request, and no call is
\* answered from an entry older than the TTL.
C4_CacheTTL ==
    /\ \A k \in DOMAIN cache_files :
          now - cache_files[k].mtime > CacheExpiry
              => get_from_cache(cache_files, k, now, "ok") = CacheNone
    /\ \A c \in Callers :
          /\ (pc[c] \in {"feed", "resolve", "done"} /\ info[c].stale)
                => (~info[c].hit /\ info[c].feed_requests = 1)
          /\ info[c].hit => info[c].fresh

\* C4 witness: a call found an entry older than the TTL, fetched the feed
\* again and returned what the feed gave.
C4_Witness ==
    \E c \in Callers :
        /\ pc[c] = "done" /\ info[c].stale /\ info[c].feed_requests = 1
        /\ info[c].outcome = "ok" /\ res[c] # <<>>

\* C9: a search whose feed request failed (status, network, parsing)
\* returns the empty list and no exception leaves search_news.
C9_FeedFailureIsEmpty ==
    \A c \in Callers :
        (pc[c] = "done" /\ info[c].outcome = "failed")
        => (res[c] = <<>> /\ ~info[c].raised)

\* C9 witness: a failed feed request in a call with use_cache and
\* resolve_urls, and one in a call with neither.
C9_Witness ==
    /\ \E c \in Callers :
          /\ pc[c] = "done" /\ info[c].outcome = "failed"
          /\ call[c].use_cache /\ call[c].resolve_urls
    /\ \E c \in Callers :
          /\ pc[c] = "done" /\ info[c].outcome = "failed"
          /\ ~call[c].use_cache /\ ~call[c].resolve_urls

Wanted(stub) == InWindow(stub.publish_date, f_from, f_to)

\* C10: the filter keeps exactly the entries whose publish_date names no
\* day or a day d with from_date <= d <= to_date, in their order, unchanged.
C10_FilterIff ==
    f_pc = "output" => f_filtered = SelectSeq(f_results, Wanted)

\* C10 witness: of two entries the one dated exactly to_date is kept and
\* the one dated outside the window is dropped.
C10_Witness ==
    /\ f_pc = "output" /\ f_from < f_to
    /\ Len(f_results) = 2 /\ Len(f_filtered) = 1
    /\ NamedDay(f_filtered[1].publish_date) = f_to
    /\ f_results[1] = f_filtered[1]
    /\ NamedDay(f_results[2].publish_date) \notin {NoDate, f_from, f_to}

InFlight == {t \in Tasks : t_pc[t] = "inflight"}

\* C5: at most MaxConcurrent tasks are inside "async with self.semaphore",
\* over all scrape_urls calls on the instance.
C5_AtMostKInFlight == Cardinality(InFlight) <= MaxConcurrent

\* C5 witness: MaxConcurrent tasks in flight, of two calls, and another
\* task waiting for a permit.
C5_Witness ==
    /\ Cardinality(InFlight) = MaxConcurrent
    /\ \E t \in InFlight : t[1] = 1
    /\ \E t \in InFlight : t[1] = 2
    /\ \E t \in Tasks : t_pc[t] = "waiting"
    /\ MaxConcurrent < NumUrls

InResult(t) ==
    \E j \in 1 .. Len(b_result[t[1]]) :
        b_result[t[1]][j] = Article(t[2], ShortContent)

\* C6: a URL that answers with a status other than 200 is asked again until
\* attempt RetryCount + 1; a task whose request, at any attempt, is
\* answered 200 with ShortContent characters of content ends with that
\* article; the list a call returns holds the article of every such task;
\* and a running call eventually returns, so the article eventually is in
\* the returned list.
C6_SuccessAppears ==
    /\ [](\A t \in Tasks :
            /\ (t_pc[t] = "done" /\ t_hist[t].last = "failed")
                   => t_hist[t].requests = RetryCount + 1
            /\ t_hist[t].last = "full"
                   => (t_pc[t] = "done" /\ t_result[t] = Article(t[2], ShortContent))
            /\ (t_hist[t].last = "full" /\ b_pc[t[1]] = "returned")
                   => InResult(t))
    /\ [][\A t \in Tasks :
            t_hist[t].last = "full" => t_hist'[t].last = "full"]_vars
    /\ (b_pc[1] = "running") ~> (b_pc[1] = "returned")

\* C6 witness: non-200 on attempts 1 and 2, a full 200 on attempt 3, and
\* the article is in the returned list.
C6_Witness ==
    \E t \in Tasks :
        /\ t_hist[t].requests = 3 /\ t_hist[t].clean /\ t_hist[t].last = "full"
        /\ b_pc[t[1]] = "returned" /\ InResult(t)

Succeeded(t) == t_hist[t].last \in {"full", "short"}

\* C7: scrape_urls returns the records of the URLs whose task ended with a
\* 200 response it accepted, in the order of urls, without placeholders;
\* a URL whose task ended otherwise is not in the list.
C7_ResultIsSuccessesInOrder ==
    \A b \in Batches :
        b_pc[b] = "returned" =>
            LET r == b_result[b]
            IN  /\ \A j \in 1 .. Len(r) :
                      /\ r[j] # NoResult
                      /\ r[j].url \in 1 .. b_urls[b]
                      /\ Succeeded(<<b, r[j].url>>)
                      /\ r[j] = t_result[<<b, r[j].url>>]
                /\ \A j, k \in 1 .. Len(r) : j < k => r[j].url < r[k].url
                /\ \A i \in 1 .. b_urls[b] :
                      Succeeded(<<b, i>>) => \E j \in 1 .. Len(r) : r[j].url = i

\* C7 witness: a URL that failed all its attempts stands between two that
\* succeeded, and the list holds exactly those two.
C7_Witness ==
    \E b \in Batches :
        /\ b_pc[b] = "returned" /\ b_urls[b] = 3
        /\ t_hist[<<b, 2>>].last = "failed"
        /\ t_hist[<<b, 2>>].requests = RetryCount + 1
        /\ Len(b_result[b]) = 2
        /\ b_result[b][1].url = 1 /\ b_result[b][2].url = 3

\* C8: a task sends at most RetryCount + 1 requests, a returned call has
\* sent at least one for each of its URLs, and a task that is done sends
\* no further request.
C8_RequestsBounded ==
    /\ [](\A t \in Tasks :
            /\ t_hist[t].requests <= RetryCount + 1
            /\ (b_pc[t[1]] = "returned" /\ t \in TasksOf(t[1]))
                   => t_hist[t].requests >= 1)
    /\ [][\A t \in Tasks :
            t_pc[t] = "done" => /\ t_pc'[t] = "done"
                                /\ t_hist'[t].requests = t_hist[t].requests]_vars

\* C8 witness: a returned call one of whose URLs was asked RetryCount + 1
\* times, not only with non-200 answers, the last one with short content.
C8_Witness ==
    \E t \in Tasks :
        /\ b_pc[t[1]] = "returned"
        /\ t_hist[t].requests = RetryCount + 1
        /\ ~t_hist[t].clean /\ t_hist[t].last = "short"

(***************************************************************************)
(* Properties of search_news: result, truncation, cache.                   *)
(***************************************************************************)
Range(q) == {q[i] : i \in 1 .. Len(q)}

Smaller(a, b) == IF a < b THEN a ELSE b

InWindowOf(c, stub) == InWindow(stub.publish_date, from_of(c), to_of(c))

\* the feed's entries, as stubs, that lie in the window of caller c or name
\* no day, in feed order
InRangeOfFeed(c) ==
    LET stubs == [i \in 1 .. Len(upstream) |-> entry_to_stub(upstream[i])]
        Keep(x) == InWindowOf(c, x)
    IN  SelectSeq(stubs, Keep)

C12_AtMostMaxResults ==
    \A c \in Callers :
        (pc[c] = "done" /\ call[c].max_results >= 0)
        => Len(res[c]) <= call[c].max_results

\* C12 witness: a call answered from an entry that holds more than
\* max_results stubs returns max_results of them.
C12_Witness ==
    \E c \in Callers :
        /\ pc[c] = "done" /\ info[c].hit
        /\ key_of(call[c]) \in DOMAIN cache_files
        /\ Len(cache_files[key_of(call[c])].data) > call[c].max_results
        /\ Len(res[c]) = call[c].max_results
        /\ call[c].max_results >= 1

\* C13: a call with max_results = 0 returns the empty list and does not
\* call _save_to_cache, with or without use_cache.
C13_ZeroWritesNothing ==
    \A c \in Callers :
        (pc[c] = "done" /\ call[c].max_results = 0)
        => (res[c] = <<>> /\ info[c].cache_writes = 0)

\* C14: a call that was answered from the cache has issued no feed request,
\* and a call that was not has issued exactly one, from the moment it is
\* sent until the call has returned, whatever max_results is and whatever
\* the feed answers.
C14_OneFeedRequest ==
    \A c \in Callers :
        pc[c] \in {"feed", "resolve", "done"}
        => /\ info[c].hit => (info[c].feed_requests = 0 /\ info[c].fresh)
           /\ ~info[c].hit => info[c].feed_requests = 1

\* C14 witness: one call returned from the feed with max_results 2 after one
\* request, another was answered from the cache without any.
C14_Witness ==
    \E a, b \in Callers :
        /\ pc[a] = "done" /\ ~info[a].hit /\ info[a].outcome = "ok"
        /\ call[a].max_results = 2 /\ info[a].feed_requests = 1
        /\ pc[b] = "done" /\ info[b].hit /\ info[b].feed_requests = 0

\* an answer that redirects: a 3xx status with a Location header
Redirects(reply) == reply \in {"301loc", "302loc", "307loc", "308loc"}

\* C15: for a redirect link that carries url=, resolution returns the
\* embedded value and sends no request; for one that does not, it sends
\* exactly one request and, when the answer redirects, returns the
\* Location target.
C15_ResolveOneHop ==
    r_pc = "output" =>
        \A i \in 1 .. Len(r_urls) :
            IF r_urls[i] = GoogleParamLink
            THEN r_resolved[i] = EmbeddedTarget /\ r_requests[i] = 0
            ELSE /\ r_requests[i] = 1
                 /\ Redirects(r_replies[i]) => r_resolved[i] = RedirectTarget

\* c was called after d had returned, with the query, topic and dates of d,
\* both with use_cache, and found the entry that d wrote still within the TTL
SecondOf(c, d) ==
    /\ c # d /\ pc[c] = "done" /\ pc[d] = "done" /\ d \in info[c].after
    /\ call[c].use_cache /\ call[d].use_cache
    /\ key_of(call[c]) = key_of(call[d])
    /\ ~info[d].hit /\ info[d].cache_writes = 1 /\ ~info[d].write_failed
    /\ info[c].fresh

\* C16: of two searches with the same query, topic and dates and use_cache,
\* the second within the TTL of the entry the first wrote, the second
\* returns the first min(max_results, n) of the n entries the first wrote
\* (the list the first returned), in order and unmodified, whatever
\* max_results and resolve_urls the second passes.
C16_HitReturnsPrefix ==
    \A c, d \in Callers :
        SecondOf(c, d)
        => /\ Len(res[c]) = IF call[c].max_results < Len(res[d])
                            THEN call[c].max_results ELSE Len(res[d])
           /\ \A i \in 1 .. Len(res[c]) : res[c][i] = res[d][i]

\* the file stored under the key of c's call
FileOf(c) == cache_files[key_of(call[c])]

\* C17: when a call with use_cache that was not answered from the cache
\* returns, the file under its key holds exactly the list it returns
\* (filtered, sorted, truncated, links resolved) with the time of the write,
\* whatever was stored under the key before.
C17_WrittenIsReturned ==
    [][\A c \in Callers :
          (pc[c] \in {"feed", "resolve"} /\ pc'[c] = "done" /\ call[c].use_cache)
          => /\ key_of(call[c]) \in DOMAIN cache_files'
             /\ json_load(FileOf(c)'.data) = res'[c]
             /\ FileOf(c)'.mtime = now]_vars

\* C17 witness: a call found a stale entry that an earlier call with the
\* same key had written, returned a different list holding a resolved link,
\* and the file now holds that list.
C17_Witness ==
    \E c, d \in Callers :
        /\ c # d /\ pc[c] = "done" /\ pc[d] = "done" /\ d \in info[c].after
        /\ call[c].use_cache /\ call[d].use_cache
        /\ key_of(call[c]) = key_of(call[d])
        /\ info[c].stale /\ ~info[c].hit /\ call[c].resolve_urls
        /\ res[c] # res[d] /\ res[d] # <<>>
        /\ \E i \in 1 .. Len(res[c]) : res[c][i].link \in {EmbeddedTarget, RedirectTarget}
        /\ json_load(FileOf(c).data) = res[c]
        /\ FileOf(c).mtime = now

\* c returns in this step from the feed or from resolution (not from the cache)
ReturnsFresh(c) == pc[c] \in {"feed", "resolve"} /\ pc'[c] = "done"

\* a and b are the same article up to the link
SameButLink(a, b) == a.title = b.title /\ a.publish_date = b.publish_date

\* C18: no step changes stored data. A call answered from the cache leaves
\* every file as it was, content and mtime; a file changes only when a call
\* with use_cache and that file's key returns from a miss, and no file is
\* removed; a list already returned does not change; the articles a call
\* takes from the feed carry the feed's links, and the one later change of
\* a link is the resolution of a news.google.com link, made in the step
\* that writes the cache and returns.
C18_NoMutationOfCached ==
    [][/\ \A c \in Callers :
             (pc[c] = "idle" /\ pc'[c] = "done") => cache_files' = cache_files
       /\ \A k \in DOMAIN cache_files :
             /\ k \in DOMAIN cache_files'
             /\ cache_files'[k] # cache_files[k]
                => \E c \in Callers :
                      ReturnsFresh(c) /\ call[c].use_cache /\ key_of(call[c]) = k
       /\ \A c \in Callers :
             /\ pc[c] = "done" => res'[c] = res[c]
             /\ pc[c] = "feed" /\ pc'[c] # "feed"
                => \A i \in 1 .. Len(res'[c]) :
                      \E j \in 1 .. Len(upstream) :
                          /\ SameButLink(res'[c][i], entry_to_stub(upstream[j]))
                          /\ res'[c][i].link # upstream[j].link
                             => /\ pc'[c] = "done" /\ call[c].resolve_urls
                                /\ is_google_link(upstream[j].link)
             /\ pc[c] = "resolve" /\ pc'[c] # "resolve"
                => /\ pc'[c] = "done" /\ Len(res'[c]) = Len(res[c])
                   /\ \A i \in 1 .. Len(res[c]) :
                          /\ SameButLink(res'[c][i], res[c][i])
                          /\ res'[c][i].link # res[c][i].link
                             => is_google_link(res[c][i].link)]_vars

\* C18 witness: a call wrote its file, time passed, a call with another key
\* resolved a link and wrote its own file; the first file still holds the
\* first call's list and its older mtime.
C18_Witness ==
    \E c, d \in Callers :
        /\ pc[c] = "done" /\ pc[d] = "done" /\ d \in info[c].after
        /\ call[c].use_cache /\ call[d].use_cache
        /\ key_of(call[c]) # key_of(call[d])
        /\ ~info[c].hit /\ ~info[d].hit
        /\ FileOf(d).mtime < FileOf(c).mtime
        /\ res[d] # <<>> /\ json_load(FileOf(d).data) = res[d]
        /\ \E i \in 1 .. Len(res[c]) : res[c][i].link \in {EmbeddedTarget, RedirectTarget}

\* C19: a file of the cache is created or changed only in the returning
\* step of a call that was not answered from the cache and whose feed
\* request succeeded; a call answered from the cache and a call whose feed
\* request failed write nothing.
C19_WriteOnlyAfterSuccess ==
    [][\A k \in DOMAIN cache_files' :
          (k \notin DOMAIN cache_files \/ cache_files'[k] # cache_files[k])
          => \E c \in Callers :
                /\ ReturnsFresh(c) /\ key_of(call[c]) = k
                /\ info'[c].outcome = "ok"]_vars

\* C20: a call whose cache write failed raises nothing and returns its
\* in-memory result: as many in-range entries of the feed as a call with
\* these arguments returns, and the same list as a call with the same
\* arguments and the same feed answer whose write succeeded (up to the
\* links when resolution, whose answers are the server's, took place).
C20_WriteFailureNonFatal ==
    \A c \in Callers :
        (pc[c] = "done" /\ info[c].write_failed)
        => /\ ~info[c].raised
           /\ info[c].outcome = "ok"
              => Len(res[c]) = Smaller(call[c].max_results, Len(InRangeOfFeed(c)))
           /\ \A d \in Callers :
                 ( /\ pc[d] = "done" /\ call[d] = call[c] /\ ~info[d].hit
                   /\ ~info[d].write_failed
                   /\ info[d].outcome = info[c].outcome )
                 => /\ Len(res[c]) = Len(res[d])
                    /\ \A i \in 1 .. Len(res[c]) : SameButLink(res[c][i], res[d][i])
                    /\ ~call[c].resolve_urls => res[c] = res[d]

\* C20 witness: two calls with the same arguments got the feed; the write
\* of one succeeded, the write of the other failed, and both returned the
\* same non-empty list.
C20_Witness ==
    \E c, d \in Callers :
        /\ pc[c] = "done" /\ pc[d] = "done" /\ call[d] = call[c]
        /\ info[c].write_failed /\ ~info[c].raised
        /\ ~info[d].hit /\ info[d].cache_writes = 1 /\ ~info[d].write_failed
        /\ res[c] # <<>> /\ res[c] = res[d]

\* the key's file is missing, cannot be read to the end, or is older than
\* the TTL
Unusable(i) ==
    \/ GetKey \notin DOMAIN i.files
    \/ i.rd # "ok"
    \/ ~i.files[GetKey].complete
    \/ i.time - i.files[GetKey].mtime > CacheExpiry

\* C21: _get_from_cache never raises, and returns None whenever the file
\* is missing, unreadable (text broken off, open refused, file removed
\* while it is looked at) or older than the TTL.
C21_GetAbsentNeverRaises ==
    u_pc = "output"
    => /\ ~u_out.raised
       /\ Unusable(u_in) => u_out.none

\* c and d ran at the same time with one key and use_cache, neither was
\* answered from the cache, d has returned and c returns in this step
LastOfTwo(c, d) ==
    /\ c # d /\ pc[d] = "done" /\ ReturnsFresh(c) /\ d \notin info[c].after
    /\ call[c].use_cache /\ call[d].use_cache
    /\ key_of(call[c]) = key_of(call[d])
    /\ ~info[d].hit

\* C22: when two calls with the same key both miss and both write, the
\* file holds, once the second of them has returned, the complete list
\* that this second one wrote and nothing of the first one's.
C22_LastWriterWins ==
    [][\A c, d \in Callers :
          LastOfTwo(c, d)
          => /\ FileOf(c)'.complete
             /\ json_load(FileOf(c)'.data) = res'[c]
             /\ pc'[c] = "done" /\ pc'[d] = "done"]_vars

\* C22 witness: two overlapping calls with one key, both from the feed,
\* returned different non-empty lists; the file holds one of them whole and
\* differs from the other.
C22_Witness ==
    \E c, d \in Callers :
        /\ c # d /\ pc[c] = "done" /\ pc[d] = "done"
        /\ d \notin info[c].after /\ c \notin info[d].after
        /\ call[c].use_cache /\ call[d].use_cache
        /\ key_of(call[c]) = key_of(call[d])
        /\ ~info[c].hit /\ ~info[d].hit
        /\ res[c] # <<>> /\ res[d] # <<>> /\ res[c] # res[d]
        /\ json_load(FileOf(c).data) = res[c]

\* the article of t's URL with less than ShortContent characters of content
ShortArticle(t) == Article(t[2], ShortContent - 1)

\* C23: a task that ended with a 200 response on attempt RetryCount + 1
\* returned the article of that response, short or not, and the call's list
\* holds it; an article with less than ShortContent characters is returned
\* only from attempt RetryCount + 1, never from an earlier one.
C23_ShortCheckNotOnFinal ==
    \A t \in Tasks :
        t_pc[t] = "done"
        => /\ (Succeeded(t) /\ t_hist[t].requests = RetryCount + 1)
                 => t_result[t] \in {ShortArticle(t), Article(t[2], ShortContent)}
           /\ t_hist[t].last = "short"
                 => /\ t_result[t] = ShortArticle(t)
                    /\ b_pc[t[1]] = "returned"
                          => \E j \in 1 .. Len(b_result[t[1]]) :
                                b_result[t[1]][j] = ShortArticle(t)
           /\ t_result[t] = ShortArticle(t) => t_hist[t].requests = RetryCount + 1

\* C23 witness: a task got short content on its attempts before the last
\* one or failed them, got short content on attempt RetryCount + 1, and
\* the short article is in the returned list.
C23_Witness ==
    \E t \in Tasks :
        /\ t_pc[t] = "done" /\ t_hist[t].last = "short"
        /\ t_hist[t].requests = RetryCount + 1
        /\ b_pc[t[1]] = "returned"
        /\ \E j \in 1 .. Len(b_result[t[1]]) : b_result[t[1]][j] = ShortArticle(t)

\* the ways a request ends that lead to a retry
RetryTriggers == {"non200", "neterror", "short"}

Before(n) == IF n = 1 THEN NoSession ELSE u_out[n - 1]

\* C25: over any sequence of search_news, get_article_content and close
\* calls the instance has at most one open ClientSession; none is made
\* before the first call that uses the network; a call finds the open one
\* and keeps it; a new one is made only when self.session is None or
\* closed.
C25_AtMostOneSession ==
    u_pc = "output"
    => \A n \in 1 .. Len(u_in) :
          /\ u_out[n].live <= 1
          /\ u_out[n].live = (IF u_out[n].ref = "open" THEN 1 ELSE 0)
          /\ u_in[n] \in {"search_hit", "close"} => u_out[n].live <= Before(n).live
          /\ Before(n).ref = "open" /\ u_in[n] # "close" => u_out[n] = Before(n)
          /\ u_out[n].live > Before(n).live
                => /\ Before(n).ref \in {"none", "closed"}
                   /\ u_in[n] \in {"search_miss", "get_article_content"}
          /\ (u_in[n] \in {"search_miss", "get_article_content"})
                => u_out[n].ref = "open"

\* C25 witness: a search opened the session, get_article_content reused
\* it, close closed it and another search opened a new one.
C25_Witness ==
    /\ u_pc = "output"
    /\ u_in = <<"search_miss", "get_article_content", "close", "search_miss">>
    /\ u_out[1].live = 1 /\ u_out[2] = u_out[1]
    /\ u_out[3].live = 0 /\ u_out[4].live = 1

\* C26: close raises nothing in any state of the instance (never used,
\* session open, already closed) and leaves no open session, and a close
\* that follows a close changes nothing.
C26_CloseIdempotent ==
    u_pc = "output"
    => \A n \in 1 .. Len(u_in) :
          u_in[n] = "close"
          => /\ ~u_out[n].raised
             /\ u_out[n].ref # "open" /\ u_out[n].live = 0
             /\ close_session(u_out[n]) = u_out[n]
             /\ (n > 1 /\ u_in[n - 1] = "close") => u_out[n] = u_out[n - 1]

\* C26 witness: close on a new instance, a search, then close twice.
C26_Witness ==
    /\ u_pc = "output"
    /\ u_in = <<"close", "search_miss", "close", "close">>
    /\ u_out[1] = NoSession
    /\ u_out[2].ref = "open"
    /\ u_out[3].ref = "closed" /\ u_out[4] = u_out[3]

C27_SessionsReleased ==
    /\ (session.live > 0) ~> (session.live = 0)
    /\ (b_session[1] = "open") ~> (b_session[1] = "closed")

\* C27 witness: the feed request of a search failed after the session was
\* created, and the endpoint has answered with the session closed.
C27_Witness ==
    /\ pc[1] = "responded"
    /\ info[1].new_sessions = 1 /\ info[1].outcome = "failed"
    /\ session.ref = "closed" /\ session.live = 0

\* what the caller would pass to name the default: the date 7 days before
\* today for from_date, today for to_date
PassedFrom(a) == IF a.kind = "str_bad" THEN DateArg("date", Today - 7) ELSE a
PassedTo(a) == IF a.kind = "str_bad" THEN DateArg("date", Today) ELSE a

\* C29: a from_date or to_date string that cannot be parsed is no failure:
\* from_date becomes the date 7 days before today and to_date becomes
\* today, each whatever the other argument is, and the cache key and the
\* date filter are those of a call that passed these dates.
C29_BadDateUsesDefault ==
    (u_pc = "output"
        /\ (u_in.from_date.kind = "str_bad" \/ u_in.to_date.kind = "str_bad"))
    => /\ u_out.from_date # NoDate /\ u_out.to_date # NoDate
       /\ u_in.from_date.kind = "str_bad" => u_out.from_date = Today - 7
       /\ u_in.to_date.kind = "str_bad" => u_out.to_date = Today
       /\ u_in.from_date.kind # "str_bad"
             => u_out.from_date = normalize_from(u_in.from_date)
       /\ u_out = search_window(PassedFrom(u_in.from_date),
                                PassedTo(u_in.to_date), u_in.results)

\* C29 witness: to_date could not be parsed while from_date named a day;
\* the window runs from that day to today and an article of the feed
\* passed the filter.
C29_Witness ==
    /\ u_pc = "output"
    /\ u_in.to_date.kind = "str_bad" /\ u_in.from_date = DateArg("str_date", 2)
    /\ u_out.from_date = 2 /\ u_out.to_date = Today
    /\ Len(u_in.results) = 2 /\ Len(u_out.filtered) = 1

\* newspaper failed inside the extractor
ExtractionError == u_in.failure \in {"set_html", "parse"}

\* C30: when the extraction fails inside a content extractor, no exception
\* leaves it and the record it returns has the url, a source taken from
\* the URL's domain, and an error marker that a successfully extracted
\* record does not have.
C30_PartialRecordOnError ==
    (u_pc = "output" /\ ExtractionError)
    => /\ ~u_out.raised
       /\ u_out.value.url = u_in.url
       /\ "source" \in DOMAIN u_out.value
       /\ "error" \in DOMAIN u_out.value

\* C31: a search with use_cache=False neither reads nor writes the cache:
\* its first step issues the feed request whatever the cache holds for its
\* key, and no step of it changes any cache file (content or mtime).
C31_NoCacheUntouched ==
    [][\A c \in Callers :
          (pc'[c] # pc[c] /\ pc'[c] # "idle" /\ ~call'[c].use_cache)
          => /\ cache_files' = cache_files
             /\ pc[c] = "idle"
                   => /\ pc'[c] = "feed"
                      /\ info'[c].feed_requests = 1
                      /\ ~info'[c].hit]_vars

\* C31 witness: a search without the cache has returned articles while a
\* fresh, non-empty file for its key, written by the other caller, is
\* still what it was.
C31_Witness ==
    \E c, d \in Callers :
        /\ c # d /\ pc[c] = "done" /\ pc[d] = "done"
        /\ ~call[c].use_cache /\ call[d].use_cache
        /\ d \in info[c].after
        /\ key_of(call[c]) = key_of(call[d])
        /\ info[c].feed_requests = 1 /\ Len(res[c]) > 0
        /\ key_of(call[c]) \in DOMAIN cache_files
        /\ now - cache_files[key_of(call[c])].mtime <= CacheExpiry
        /\ json_load(cache_files[key_of(call[c])].data) = res[d]
        /\ Len(res[d]) > 0

\* the order of a task's positions
Rank(p) ==
    CASE p = "unused" -> 0 [] p = "waiting" -> 1 [] p = "inflight" -> 2
      [] p = "done" -> 3

\* C32: every task of a scrape_urls call terminates: it goes from created
\* to in flight, stays in flight over its retries, and ends once, with an
\* article or with None, which then stays; a task that has not ended
\* belongs to a running call, and a running call eventually returns with
\* every one of its tasks ended, whatever the requests come back with.
C32_EveryTaskTerminates ==
    /\ [][\A t \in FairTasks :
            /\ Rank(t_pc[t]) <= Rank(t_pc'[t])
            /\ Rank(t_pc'[t]) <= Rank(t_pc[t]) + 1
            /\ t_pc[t] = "done"
                  => (t_pc'[t] = "done" /\ t_result'[t] = t_result[t])
            /\ t_attempt'[t] \in {t_attempt[t], t_attempt[t] + 1}
            /\ t_attempt'[t] = t_attempt[t] + 1 =>
                  (t_pc[t] = "inflight" /\ t_pc'[t] = "inflight")]_vars
    /\ [](\A t \in FairTasks :
            t_pc[t] \in {"waiting", "inflight"} => b_pc[1] = "running")
    /\ (b_pc[1] = "running")
          ~> (b_pc[1] = "returned" /\ \A t \in TasksOf(1) : t_pc[t] = "done")
    /\ [](b_pc[1] = "returned" => \A t \in TasksOf(1) : t_pc[t] = "done")

\* C32 witness: a call with more URLs than permits has returned; one task
\* ended with None after RetryCount + 1 requests and another with an
\* article after a retry.
C32_Witness ==
    /\ b_pc[1] = "returned" /\ b_urls[1] = NumUrls /\ NumUrls > MaxConcurrent
    /\ \E t, u \in FairTasks :
          /\ t_pc[t] = "done" /\ t_result[t] = NoResult
          /\ t_hist[t].requests = RetryCount + 1
          /\ t_pc[u] = "done" /\ t_result[u] = Article(u[2], ShortContent)
          /\ t_hist[u].requests = 2

C34_StagesInOrder ==
    \A c \in Callers :
        /\ pc[c] = "feed"
              => /\ info[c].feed_requests = 1
                 /\ info[c].resolve_requests = 0 /\ info[c].cache_writes = 0
        /\ pc[c] = "resolve"
              => /\ call[c].resolve_urls /\ info[c].outcome = "ok"
                 /\ Len(res[c]) <= call[c].max_results
                 /\ google_urls(res[c]) # {}
                 /\ Cardinality(google_urls(res[c])) <= call[c].max_results
                 /\ info[c].resolve_requests = Cardinality(needs_request(res[c]))
                 /\ info[c].cache_writes = 0
        /\ (pc[c] = "done" /\ ~info[c].hit)
              => /\ info[c].resolve_requests <= call[c].max_results
                 /\ info[c].resolve_requests > 0 => call[c].resolve_urls
                 /\ info[c].cache_writes = IF call[c].use_cache THEN 1 ELSE 0

\* C34 witness: the feed held more entries than max_results; the search
\* resolved the one redirect link that survived truncation and then wrote
\* the list with the resolved link.
C34_Witness ==
    \E c \in Callers :
        /\ pc[c] = "done" /\ ~info[c].hit /\ call[c].use_cache
        /\ call[c].max_results = 1 /\ Len(upstream) > 1
        /\ info[c].resolve_requests = 1 /\ info[c].cache_writes = 1
        /\ Len(res[c]) = 1 /\ res[c][1].link = RedirectTarget
        /\ key_of(call[c]) \in DOMAIN cache_files
        /\ json_load(cache_files[key_of(call[c])].data) = res[c]

\* C35: the resolution of a search with resolve_urls leaves the number of
\* stubs, their order and every field but link as they were; the link of a
\* stub that is not a redirect link stays; the link of a redirect link at
\* position i becomes what the resolution of that very link gave (its url=
\* value, the redirect target, or the link itself).
C35_ResolutionInPlace ==
    [][(pc[1] = "resolve" /\ pc'[1] = "done")
       => /\ call[1].resolve_urls
          /\ Len(res'[1]) = Len(res[1])
          /\ \A i \in 1 .. Len(res[1]) :
                /\ SameButLink(res'[1][i], res[1][i])
                /\ DOMAIN res'[1][i] = DOMAIN res[1][i]
                /\ IF ~is_google_link(res[1][i].link)
                   THEN res'[1][i].link = res[1][i].link
                   ELSE IF has_url_param(res[1][i].link)
                   THEN res'[1][i].link = url_param(res[1][i].link)
                   ELSE res'[1][i].link \in {RedirectTarget, res[1][i].link}]_vars

\* C35 witness: the returned list has a stub with a direct link before one
\* whose redirect link was resolved to the redirect target.
C35_Witness ==
    /\ pc[1] = "done" /\ info[1].resolve_requests = 1
    /\ call[1].resolve_urls /\ ~info[1].hit
    /\ \E i, j \in 1 .. Len(res[1]) :
          /\ i < j
          /\ res[1][i].link = DirectLink
          /\ res[1][j].link = RedirectTarget

\* the answers that give no redirect target: an exception or a timeout, a
\* status other than 301 and 302, a 301 without a Location header
NoTarget(reply) == ~follows(reply)

C37_KeySeparatesCriteria ==
    u_pc = "output" =>
        \A other \in KeyCriteria :
            generate_cache_key(other.query, other.topic,
                               other.from_date, other.to_date) = u_out
            <=> other = u_in

\* C38: a task takes its permit once, when it leaves the queue for its
\* first request, and only if fewer than MaxConcurrent tasks hold one; it
\* keeps it over every retry (back-off included); so while MaxConcurrent
\* tasks are in their retry cycles no further task starts.
C38_PermitHeldAcrossRetries ==
    [][\A t \in Tasks :
          /\ (t_pc[t] = "waiting" /\ t_pc'[t] = "inflight")
                => /\ Cardinality(InFlight) < MaxConcurrent
                   /\ permits' = permits - 1
                   /\ t_attempt'[t] = 0 /\ t_hist'[t].requests = 1
          /\ (t_pc[t] = "inflight" /\ t_attempt'[t] # t_attempt[t])
                => /\ t_pc'[t] = "inflight"
                   /\ permits' = permits
                   /\ Cardinality(InFlight) + permits = MaxConcurrent
          /\ (t_pc[t] = "waiting" /\ Cardinality(InFlight) = MaxConcurrent)
                => t_pc'[t] = "waiting"]_vars

\* C38 witness: MaxConcurrent tasks are past their first attempt and still
\* running, no permit is free, and a further task is waiting without
\* having sent a request.
C38_Witness ==
    /\ permits = 0
    /\ Cardinality({t \in Tasks : t_pc[t] = "inflight" /\ t_attempt[t] >= 1})
           = MaxConcurrent
    /\ \E t \in Tasks : t_pc[t] = "waiting" /\ t_hist[t].requests = 0

\* the tasks that change position in a step, from position p to position q
Moved(p, q) == {t \in Tasks : t_pc[t] = p /\ t_pc'[t] = q}

\* C39: the held permits are exactly those of the tasks in flight, between
\* 0 and MaxConcurrent; a permit is taken only by a task starting and given
\* back only by a task ending, once, however it ends; a call that has
\* returned holds none, and with no call running all are free.
C39_PermitsNeverLeak ==
    /\ [](/\ permits \in 0 .. MaxConcurrent
          /\ MaxConcurrent - permits = Cardinality(InFlight)
          /\ \A b \in Batches :
                b_pc[b] = "returned" => TasksOf(b) \cap InFlight = {}
          /\ (\A b \in Batches : b_pc[b] # "running")
                => permits = MaxConcurrent)
    /\ [][/\ \A t \in Tasks :
               /\ t_pc[t] = "done" => t_pc'[t] = "done"
               /\ (t_pc[t] = "inflight" /\ t_pc'[t] # "inflight")
                     => /\ t_pc'[t] = "done"
                        /\ t_hist'[t].last
                              \in {"full", "short", "failed", "exception"}
                        /\ permits' = permits + 1
          /\ permits' > permits
                => Cardinality(Moved("inflight", "done")) = 1
          /\ permits' < permits
                => /\ Cardinality(Moved("waiting", "inflight")) = 1
                   /\ permits' = permits - 1]_vars

\* C39 witness: the first call has returned after its task ended with an
\* unexpected exception, and the second call has MaxConcurrent tasks in
\* flight at once.
C39_Witness ==
    /\ b_pc[1] = "returned"
    /\ \E t \in TasksOf(1) : t_hist[t].last = "exception"
    /\ Cardinality(TasksOf(2) \cap InFlight) = MaxConcurrent

\* a required date parameter of the request is absent or empty
MissingDate ==
    \/ u_in.start_date \in {<<>>, <<"">>}
    \/ u_in.endpoint = "date-range" /\ u_in.end_date \in {<<>>, <<"">>}

\* C40: a date endpoint answers a request lacking a required date with
\* status 400, having created no searcher and issued no search; status 500
\* is the answer only when the search itself failed.
C40_MissingDateIs400 ==
    u_pc = "output"
        => /\ MissingDate
                => /\ u_out.status = 400
                   /\ ~u_out.created
                   /\ u_out.searches = <<>>
           /\ u_out.status = 500 => (~MissingDate /\ u_in.outcome = "raises")

=============================================================================
